---- MODULE Spec2Model ----
(***************************************************************************)
(* SWITE development server (kibologic/swite).                             *)
(*                                                                         *)
(* Spec         the request handlers (UIHandler / TSHandler) driving the   *)
(*              process-wide CompilationCache, with every await of         *)
(*              handle(), get() and set() a separate step: requests one    *)
(*              after the other, next to a file system, a clock and a      *)
(*              resolver that change between any two steps.                *)
(* SpecConc     the same handlers with requests overlapping in time, on a  *)
(*              file system at rest.                                       *)
(* SpecEdit     the same handlers with requests for one source overlapping *)
(*              in time while that source is written.                      *)
(* SpecRewrite  rewriteImports applied to a script, and applied again to   *)
(*              its own output, for scripts put together from a few        *)
(*              statements, over the importers and package states.         *)
(* SpecHmr      the HMR engine: subscribers connecting and leaving, file   *)
(*              changes seen by the workspace watcher and by the route     *)
(*              watcher, and the update messages broadcast.                *)
(* SpecServe    one request going down the middleware chain of             *)
(*              setupMiddleware to the handlers, over the files present    *)
(*              and the files that fail to compile.                        *)
(* SpecRegistry module resolutions (resolveWorkspacePackage) overlapping   *)
(*              in time on the process-wide PackageRegistry, with every    *)
(*              await of a scan a separate step.                           *)
(***************************************************************************)
EXTENDS Integers, Sequences, FiniteSets, TLC

(***************************************************************************)
(* Bounds of the model.                                                    *)
(***************************************************************************)
\* Source files that can be requested.
NPaths == 3
\* Requests that can be in flight at the same time.
NProcs == 2
\* Largest value of the wall clock (Date.now()) and so of every mtime.
MaxTime == 1
\* CompilationCache.maxSize.  The source sets 1000; the model scales the cap
\* down so that a full cache is reachable.
maxSize == 2
\* Statements of a script handed to rewriteImports.
MaxStmts == 2
\* WebSocket clients of the HMR engine.
NSubs == 2
\* File changes while the server runs.
MaxChanges == 2

Paths == 1 .. NPaths
\* The source that is edited and removed while the server runs.
Edited == {1}
Procs == 1 .. NProcs

\* The file a locally installed package resolves to.
DepFile == 0
Files == Paths \cup {DepFile}
\* A root-relative URL (such as /src/util.ts) used as a file name: no file of
\* the file system has that name.
UrlName == 0 - 1
\* The mtime of a file that does not exist.
NoFile == 0 - 1
NoPath == 0

(***************************************************************************)
(* The state.                                                              *)
(***************************************************************************)
VARIABLES
    cache,        \* CompilationCache.cache: the Map, as its entries in key insertion order
    mtime,        \* file system: mtimeMs of every file, NoFile when absent
    now,          \* Date.now()
    installed,    \* resolver: is the imported package resolvable locally
    pc,           \* per request: the await it is suspended at
    filePath,     \* per request: handle()'s filePath
    entry,        \* per request: get()'s local `entry`
    stats,        \* per request: set()'s local `stats.mtimeMs`
    source,       \* per request: the source text read by fs.readFile
    cached,       \* per request: handle()'s `cached`, the value get() returned
    firstKey,     \* per request: set()'s local `firstKey`, the key it evicted
    resp,         \* per request: the response written
    before,       \* history: the pairs << a, b >> of present keys with a inserted before b
    clean,        \* history: per request, nothing else has changed files, resolver or cache since it began
    stale,        \* history: per request, its path had an entry of another mtime when it began
    last,         \* history: the last finished request, while nothing has happened since
    follows,      \* history: per request, it began right after `last`, for the same URL
    code,         \* rewriteImports: the script handed in
    importer,     \* rewriteImports: the path of the file the script was compiled from
    exists,       \* file system: the extensions under which the sibling ./a of the importer exists
    rpc,          \* rewriteImports: "init", "once" (rewritten), "twice" (the output rewritten again)
    out1,         \* the text rewriteImports returned for `code`
    out2,         \* the text rewriteImports returned for `out1`
    clients,      \* HMREngine.clients with each socket's readyState; "none" when not in the set
    inbox,        \* per subscriber: the messages sent to it
    hasPages,     \* the application has a src/pages directory (a route watcher exists)
    nchanges,     \* history: the file changes so far
    pendingW,     \* change events the workspace watcher has still to emit
    pendingR,     \* change events the route watcher has still to emit
    rescanning,   \* route change handlers suspended in scanRoutes
    steady,       \* history: per change, the subscribers attached since before it
    url,          \* the URL of the request in the middleware chain
    present,      \* the extensions under which the requested file exists
    broken,       \* those of them whose compilation fails
    stage,        \* the middleware the request has reached
    ctype,        \* the Content-Type header set on the response so far
    res,          \* the response sent
    calls,        \* history: the handlers invoked for the request, in order
    failed,       \* history: a compilation failed during the request
    passedOn,     \* history: next() was called after a handler threw
    packages,     \* PackageRegistry.packages, in insertion order
    scanned,      \* PackageRegistry.scanned
    scanRoots,    \* PackageRegistry.scanRoots
    rpos,         \* per resolution: its position in resolveWorkspacePackage
    wanted,       \* per resolution: the package it looks for (pkgName)
    roots,        \* per resolution: the roots of the scan it is making
    todo,         \* per resolution: the directories its scan has still to visit
    caller,       \* per resolution: where its scan or rescan returns to
    overlap,      \* history: a scan was called while another was in progress
    inaccessible, \* history: fs.stat of a workspace root has failed
    lastRoots,    \* history: the roots the last scan used
    platform,     \* process.platform: "posix" or "win32"
    disk,         \* file system: the paths that exist under the roots of the resolver
    lastCall,     \* resolver: the operation called last, "none" before the first
    callArg,      \* resolver: what it was called with
    callRet,      \* resolver: what it returned, or that it threw
    envUrl,       \* process.env.PYTHON_SERVICE_URL is set
    pythonConfig, \* proxyToPython: _pythonConfig is not null
    response,     \* proxyToPython: the response fetch resolved with
    outcome,      \* proxyToPython: what the call came to
    clock,        \* Date.now(), in milliseconds since the start was called
    deadline,     \* pollHealth: deadline
    attempt,      \* pollHealth: attempt
    spos,         \* startPythonDevService: its position
    child,        \* the spawned Python process: "none", "running", "exited", "killed"
    childRef,     \* pythonDevManager: _child is not null
    healthy,      \* history: the health endpoint has answered with a 2xx status
    hmrPort,      \* HMREngine.port
    bound,        \* the ports other processes are listening on
    listening,    \* the port the push server listens on, NoPort when on none
    ipos,         \* HMREngine.initialize: its position
    wasFree       \* history: the configured port was free when it was probed

cvars == << cache, mtime, now, installed, pc, filePath, entry, stats, source,
            cached, firstKey, resp, before, clean, stale, last, follows >>
rvars == << code, importer, exists, rpc, out1, out2 >>
hvars == << clients, inbox, hasPages, nchanges, pendingW, pendingR, rescanning, steady >>
svars == << url, present, broken, stage, ctype, res, calls, failed, passedOn >>
gvars == << packages, scanned, scanRoots, rpos, wanted, roots, todo, caller, overlap, inaccessible,
           lastRoots >>
uvars == << platform, disk, lastCall, callArg, callRet >>
pvars == << envUrl, pythonConfig, response, outcome, clock, deadline, attempt, spos,
            child, childRef, healthy >>
ovars == << hmrPort, bound, listening, ipos, wasFree >>
vars == << cvars, rvars, hvars, svars, gvars, uvars, pvars, ovars >>
\* What a step of one component leaves alone.
exceptCache == << rvars, hvars, svars, gvars, uvars, pvars, ovars >>
exceptRewriter == << cvars, hvars, svars, gvars, uvars, pvars, ovars >>
exceptHmr == << cvars, rvars, svars, gvars, uvars, pvars, ovars >>
exceptServe == << cvars, rvars, hvars, gvars, uvars, pvars, ovars >>
exceptRegistry == << cvars, rvars, hvars, svars, uvars, pvars, ovars >>
exceptResolver == << cvars, rvars, hvars, svars, gvars, pvars, ovars >>
exceptPython == << cvars, rvars, hvars, svars, gvars, uvars, ovars >>
exceptPort == << cvars, rvars, hvars, svars, gvars, uvars, pvars >>

(***************************************************************************)
(* Sources, compiler output and dependency extraction.                     *)
(***************************************************************************)
\* What a source imports: a scoped package; an absolute URL; relative paths
\* only; or nothing at all, being an empty or types-only source whose
\* transformed text is the empty string.
Kind(p) == CASE p % 4 = 1 -> "pkg"
             [] p % 4 = 2 -> "abs"
             [] p % 4 = 3 -> "rel"
             [] OTHER -> "empty"

\* compiler.compileAsync / esbuild.transform: the script of a source text.
CompileSource(p, v) == [src |-> p, ver |-> v]

\* rewriteImports followed by the handler's final pass, on compiler output.
FinalCode(compiled) == [js |-> compiled, empty |-> Kind(compiled.src) = "empty"]

\* JavaScript truthiness of a string: `if (cached)`.
Truthy(text) == ~text.empty

\* ModuleResolver.resolve(specifier, ""): an absolute specifier is returned
\* as it is; a scoped one resolves to the package file when installed (toUrl
\* returns a path that starts with "/" unchanged) and to a CDN URL otherwise.
Resolve(kind, inst) == CASE kind = "abs" -> << "local", UrlName >>
                         [] kind = "pkg" /\ inst -> << "local", DepFile >>
                         [] OTHER -> << "http", UrlName >>

\* UIHandler.getDependencies / TSHandler.getDependencies.
GetDependencies(compiled, inst) ==
    LET kind == Kind(compiled.src)
        resolved == Resolve(kind, inst)
    IN  IF kind \in {"abs", "pkg"} /\ resolved[1] # "http"
        THEN << resolved[2] >>
        ELSE << >>

\* fs.stat(name): the mtime, or NoFile when the call throws.
Stat(name, mt) == IF name \in Files THEN mt[name] ELSE NoFile

\* fs.readFile(name): every write of a source leaves a new text, named here
\* by the moment of the write.
SourceText(name, mt) == mt[name]

(***************************************************************************)
(* The Map of CompilationCache.                                            *)
(***************************************************************************)
NoEntry == [key |-> NoPath, compiled |-> CompileSource(NoPath, 0),
            rewritten |-> FinalCode(CompileSource(NoPath, 0)),
            mtime |-> NoFile, dependencies |-> << >>, timestamp |-> 0]

Keys(m) == {m[i].key : i \in 1 .. Len(m)}

\* Map.get
MapGet(m, k) == IF k \in Keys(m)
                THEN m[CHOOSE i \in 1 .. Len(m) : m[i].key = k]
                ELSE NoEntry

\* Map.delete
MapDelete(m, k) == SelectSeq(m, LAMBDA e : e.key # k)

\* Map.set: a new key goes last, an existing key keeps its place.
MapSet(m, e) == IF e.key \in Keys(m)
                THEN [i \in 1 .. Len(m) |-> IF m[i].key = e.key THEN e ELSE m[i]]
                ELSE Append(m, e)

\* A wrong reading of the eviction, to test C6 against: the key inserted last.
LastKey(m) == m[Len(m)].key

\* this.cache.keys().next().value
FirstKey(m) == m[1].key

(***************************************************************************)
(* CompilationCache.get: the three validity checks.                        *)
(***************************************************************************)
\* A wrong reading of the source check, to test C5 against: only a source
\* that is gone invalidates.
SourceGone(s, e) == s = NoFile

\* stats.mtimeMs !== entry.mtime, or fs.stat threw
SourceModified(s, e) == s = NoFile \/ s # e.mtime

\* depsChanged
DepsChanged(currentDeps, e) ==
    \/ Len(currentDeps) # Len(e.dependencies)
    \/ \E i \in 1 .. Len(currentDeps) : currentDeps[i] # e.dependencies[i]

\* A wrong reading of the dependency check, to test C1 against: the
\* dependency is compared with the mtime of the source, not with the
\* instant the entry was stored.
DepNewerThanSource(s, e) == s = NoFile \/ s > e.mtime

\* depStats.mtimeMs > entry.timestamp, or fs.stat(dep) threw
DepModified(s, e) == s = NoFile \/ s > e.timestamp

(***************************************************************************)
(* Values of the request-local variables outside their scope.              *)
(***************************************************************************)
NoCode == [js |-> CompileSource(NoPath, 0), empty |-> TRUE]
NoResp == [status |-> "none", from |-> "none", body |-> NoCode]
NoLast == [path |-> NoPath, body |-> NoCode]

Idle(q) == pc[q] = "idle"
Others(q) == Procs \ {q}

\* History: a step of request q that changes the cache disturbs the others.
Disturb(q) == clean' = [r \in Procs |-> IF r = q THEN clean[q] ELSE FALSE]
\* History: a change of files or resolver disturbs every request.
DisturbAll == /\ clean' = [r \in Procs |-> FALSE]
              /\ last' = NoLast

\* History of the Map's insertion order.
BeforeAfterDelete(k) == {pr \in before : pr[1] # k /\ pr[2] # k}
BeforeAfterSet(m, k) == IF k \in Keys(m) THEN before
                        ELSE before \cup {<< a, k >> : a \in Keys(m)}

TypeOK ==
    /\ now \in 0 .. MaxTime
    /\ mtime \in [Files -> {NoFile} \cup (0 .. MaxTime)]
    /\ installed \in BOOLEAN
    /\ pc \in [Procs -> {"idle", "get", "getStat", "getDeps", "getDepStat", "read",
                         "compile", "setStat", "setDeps", "done"}]
    /\ filePath \in [Procs -> Paths \cup {NoPath}]
    /\ Keys(cache) \subseteq Paths
    /\ before \subseteq Paths \X Paths

InitCache ==
    /\ cache = << >>
    /\ mtime = [f \in Files |-> 0]
    /\ now = 0
    /\ installed \in BOOLEAN
    /\ pc = [q \in Procs |-> "idle"]
    /\ filePath = [q \in Procs |-> NoPath]
    /\ entry = [q \in Procs |-> NoEntry]
    /\ stats = [q \in Procs |-> NoFile]
    /\ source = [q \in Procs |-> 0]
    /\ cached = [q \in Procs |-> NoCode]
    /\ firstKey = [q \in Procs |-> NoPath]
    /\ resp = [q \in Procs |-> NoResp]
    /\ before = {}
    /\ clean = [q \in Procs |-> FALSE]
    /\ stale = [q \in Procs |-> FALSE]
    /\ last = NoLast
    /\ follows = [q \in Procs |-> FALSE]

\* No script is being rewritten.
InitRewriter ==
    /\ code = << >>
    /\ importer = << >>
    /\ exists = {}
    /\ rpc = "init"
    /\ out1 = << >>
    /\ out2 = << >>

\* No subscriber, no file change.
InitHmr ==
    /\ clients = [c \in 1 .. NSubs |-> "none"]
    /\ inbox = [c \in 1 .. NSubs |-> << >>]
    /\ hasPages \in BOOLEAN
    /\ nchanges = 0
    /\ pendingW = {}
    /\ pendingR = {}
    /\ rescanning = {}
    /\ steady = [k \in 1 .. MaxChanges |-> {}]

\* No request is in the middleware chain.
NoRes == [status |-> 0, type |-> "unset", body |-> << >>, location |-> << >>]

InitRequest ==
    /\ url = << >>
    /\ stage = "idle"
    /\ ctype = "unset"
    /\ res = NoRes
    /\ calls = << >>
    /\ failed = FALSE
    /\ passedOn = FALSE

InitServe == InitRequest /\ present = {} /\ broken = {}

\* A new registry and no resolution.
InitRegistry ==
    /\ packages = << >>
    /\ scanned = FALSE
    /\ scanRoots = << >>
    /\ rpos = [q \in Procs |-> "idle"]
    /\ wanted = [q \in Procs |-> "none"]
    /\ roots = [q \in Procs |-> << >>]
    /\ todo = [q \in Procs |-> << >>]
    /\ caller = [q \in Procs |-> "none"]
    /\ overlap = FALSE
    /\ inaccessible = FALSE
    /\ lastRoots = << >>

\* The resolver has not been called; an empty disk.
NoArg == [specifier |-> << >>, importer |-> << >>, path |-> << >>, manifest |-> "none",
          answer |-> "null"]
NoRet == [url |-> << >>, file |-> << >>, threw |-> FALSE]

InitResolver ==
    /\ platform = "posix"
    /\ disk = {}
    /\ lastCall = "none"
    /\ callArg = NoArg
    /\ callRet = NoRet

\* No request has been proxied and no Python service started.
NoResponse == [status |-> 0, body |-> "none", bodyUsed |-> FALSE]
NoOutcome == [kind |-> "none", status |-> 0, method |-> "none"]

InitProxy ==
    /\ envUrl = FALSE
    /\ pythonConfig = FALSE
    /\ response = NoResponse
    /\ outcome = NoOutcome

InitService ==
    /\ clock = 0
    /\ deadline = 0
    /\ attempt = 0
    /\ spos = "idle"
    /\ child = "none"
    /\ childRef = FALSE
    /\ healthy = FALSE

InitPython == InitProxy /\ InitService

\* The engine has been constructed with the default port; nothing listens.
NoPort == 0
DefaultPort == 24678

InitPort ==
    /\ hmrPort = DefaultPort
    /\ bound = {}
    /\ listening = NoPort
    /\ ipos = "new"
    /\ wasFree = FALSE

Init ==
    /\ InitCache /\ InitRewriter /\ InitHmr /\ hasPages /\ InitServe /\ InitRegistry
    /\ InitResolver /\ InitPython /\ InitPort

(***************************************************************************)
(* UIHandler.handle / TSHandler.handle, one step per await.                *)
(***************************************************************************)
\* The response of request q.
Completes(q, r) ==
    /\ resp' = [resp EXCEPT ![q] = r]
    /\ UNCHANGED last

\* History: the request locals, outside a request.
Reset(q) ==
    /\ filePath' = [filePath EXCEPT ![q] = NoPath]
    /\ entry' = [entry EXCEPT ![q] = NoEntry]
    /\ stats' = [stats EXCEPT ![q] = NoFile]
    /\ source' = [source EXCEPT ![q] = 0]
    /\ cached' = [cached EXCEPT ![q] = NoCode]
    /\ firstKey' = [firstKey EXCEPT ![q] = NoPath]
    /\ resp' = [resp EXCEPT ![q] = NoResp]
    /\ clean' = [clean EXCEPT ![q] = FALSE]
    /\ stale' = [stale EXCEPT ![q] = FALSE]
    /\ follows' = [follows EXCEPT ![q] = FALSE]

\* A request for the URL of source p arrives (in the lowest free slot) and
\* await fs.access(filePath) returns: a missing file ends the request.
Request(q, p) ==
    /\ Idle(q)
    /\ \A o \in Procs : o < q => ~Idle(o)
    /\ filePath' = [filePath EXCEPT ![q] = p]
    /\ clean' = [clean EXCEPT ![q] = TRUE]
    /\ stale' = [stale EXCEPT ![q] = /\ p \in Keys(cache)
                                      /\ Stat(p, mtime) # NoFile
                                      /\ Stat(p, mtime) # MapGet(cache, p).mtime]
    /\ follows' = [follows EXCEPT ![q] = last.path = p /\ \A o \in Others(q) : Idle(o)]
    /\ IF Stat(p, mtime) = NoFile
       THEN /\ pc' = [pc EXCEPT ![q] = "done"]
            /\ resp' = [resp EXCEPT ![q] = [status |-> "404", from |-> "none",
                                            body |-> NoCode]]
            /\ UNCHANGED last
       ELSE /\ pc' = [pc EXCEPT ![q] = "get"]
            /\ last' = (IF last.path = p THEN last ELSE NoLast)
            /\ UNCHANGED resp
    /\ UNCHANGED << cache, mtime, now, installed, entry, stats, source, cached,
                    firstKey, before >>
    /\ UNCHANGED exceptCache

\* The response has been sent: the request is over.
Finish(q) ==
    /\ pc[q] = "done"
    /\ pc' = [pc EXCEPT ![q] = "idle"]
    /\ Reset(q)
    /\ last' = IF resp[q].status = "200" /\ clean[q] /\ \A o \in Others(q) : Idle(o)
               THEN [path |-> filePath[q], body |-> resp[q].body]
               ELSE NoLast
    /\ UNCHANGED << cache, mtime, now, installed, before >>
    /\ UNCHANGED exceptCache

\* get() returns null to handle(): the handler goes on to compile.
GetMiss(q) ==
    /\ pc' = [pc EXCEPT ![q] = "read"]
    /\ cached' = [cached EXCEPT ![q] = NoCode]
    /\ UNCHANGED << resp, last >>

\* get() invalidates: this.cache.delete(filePath); return null.
GetInvalidate(q) ==
    /\ cache' = MapDelete(cache, filePath[q])
    /\ before' = BeforeAfterDelete(filePath[q])
    /\ Disturb(q)
    /\ GetMiss(q)

\* get() returns entry.rewritten to handle(): `if (cached)` answers from the
\* cache, and an empty string falls through to the compile.
GetHit(q) ==
    /\ cached' = [cached EXCEPT ![q] = entry[q].rewritten]
    /\ IF Truthy(entry[q].rewritten)
       THEN /\ pc' = [pc EXCEPT ![q] = "done"]
            /\ Completes(q, [status |-> "200", from |-> "cache",
                             body |-> entry[q].rewritten])
       ELSE /\ pc' = [pc EXCEPT ![q] = "read"]
            /\ UNCHANGED << resp, last >>

\* get(): const entry = this.cache.get(filePath); if (!entry) return null;
GetEntry(q) ==
    /\ pc[q] = "get"
    /\ IF filePath[q] \in Keys(cache)
       THEN /\ entry' = [entry EXCEPT ![q] = MapGet(cache, filePath[q])]
            /\ pc' = [pc EXCEPT ![q] = "getStat"]
            /\ UNCHANGED << cached, resp, last >>
       ELSE /\ GetMiss(q)
            /\ UNCHANGED entry
    /\ UNCHANGED << cache, mtime, now, installed, filePath, stats, source,
                    firstKey, before, clean, stale, follows >>
    /\ UNCHANGED exceptCache

\* get(): await fs.stat(filePath) and the mtime comparison.
GetStat(q) ==
    /\ pc[q] = "getStat"
    /\ IF SourceModified(Stat(filePath[q], mtime), entry[q])
       THEN GetInvalidate(q)
       ELSE /\ pc' = [pc EXCEPT ![q] = "getDeps"]
            /\ UNCHANGED << cache, before, clean, cached, resp, last >>
    /\ UNCHANGED << mtime, now, installed, filePath, entry, stats, source,
                    firstKey, stale, follows >>
    /\ UNCHANGED exceptCache

\* get(): await getDependencies(entry.compiled) and the comparison of the
\* lists; with no recorded dependency the loop over them awaits nothing.
GetDeps(q) ==
    /\ pc[q] = "getDeps"
    /\ IF DepsChanged(GetDependencies(entry[q].compiled, installed), entry[q])
       THEN GetInvalidate(q)
       ELSE IF entry[q].dependencies = << >>
            THEN /\ GetHit(q)
                 /\ UNCHANGED << cache, before, clean >>
            ELSE /\ pc' = [pc EXCEPT ![q] = "getDepStat"]
                 /\ UNCHANGED << cache, before, clean, cached, resp, last >>
    /\ UNCHANGED << mtime, now, installed, filePath, entry, stats, source,
                    firstKey, stale, follows >>
    /\ UNCHANGED exceptCache

\* get(): await fs.stat(dep) for the recorded dependencies (at most one in
\* this model, so the loop is one await).
GetDepStat(q) ==
    /\ pc[q] = "getDepStat"
    /\ IF \E i \in 1 .. Len(entry[q].dependencies) :
             DepModified(Stat(entry[q].dependencies[i], mtime), entry[q])
       THEN GetInvalidate(q)
       ELSE /\ GetHit(q)
            /\ UNCHANGED << cache, before, clean >>
    /\ UNCHANGED << mtime, now, installed, filePath, entry, stats, source,
                    firstKey, stale, follows >>
    /\ UNCHANGED exceptCache

\* await fs.readFile(filePath): a file removed since fs.access makes it throw.
Read(q) ==
    /\ pc[q] = "read"
    /\ IF Stat(filePath[q], mtime) = NoFile
       THEN /\ pc' = [pc EXCEPT ![q] = "done"]
            /\ Completes(q, [status |-> "500", from |-> "none", body |-> NoCode])
            /\ UNCHANGED source
       ELSE /\ pc' = [pc EXCEPT ![q] = "compile"]
            /\ source' = [source EXCEPT ![q] = SourceText(filePath[q], mtime)]
            /\ UNCHANGED << resp, last >>
    /\ UNCHANGED << cache, mtime, now, installed, filePath, entry, stats,
                    cached, firstKey, before, clean, stale, follows >>
    /\ UNCHANGED exceptCache

\* handle()'s locals `compiled` and `finalCode`.
Compiled(q) == CompileSource(filePath[q], source[q])

\* The compile (compileAsync / esbuild.transform) and rewriteImports end;
\* set(): the eviction check, up to its await fs.stat(filePath).
SetEvict(q) ==
    /\ pc[q] = "compile"
    /\ pc' = [pc EXCEPT ![q] = "setStat"]
    /\ IF Len(cache) >= maxSize
       THEN /\ firstKey' = [firstKey EXCEPT ![q] = FirstKey(cache)]
            /\ cache' = MapDelete(cache, FirstKey(cache))
            /\ before' = BeforeAfterDelete(FirstKey(cache))
            /\ Disturb(q)
       ELSE UNCHANGED << firstKey, cache, before, clean >>
    /\ UNCHANGED << mtime, now, installed, filePath, entry, stats, source,
                    cached, resp, stale, last, follows >>
    /\ UNCHANGED exceptCache

\* handle(): res.end(finalCode) after set() has returned.
Respond(q) ==
    /\ pc' = [pc EXCEPT ![q] = "done"]
    /\ Completes(q, [status |-> "200", from |-> "compile",
                     body |-> FinalCode(Compiled(q))])

\* set(): fs.stat(filePath) returns, or throws into the catch of set().
SetStat(q) ==
    /\ pc[q] = "setStat"
    /\ IF Stat(filePath[q], mtime) = NoFile
       THEN /\ Respond(q)
            /\ UNCHANGED stats
       ELSE /\ pc' = [pc EXCEPT ![q] = "setDeps"]
            /\ stats' = [stats EXCEPT ![q] = Stat(filePath[q], mtime)]
            /\ UNCHANGED << resp, last >>
    /\ UNCHANGED << cache, mtime, now, installed, filePath, entry, source,
                    cached, firstKey, before, clean, stale, follows >>
    /\ UNCHANGED exceptCache

\* set(): getDependencies(compiled) returns and the entry is stored.
SetStore(q) ==
    /\ pc[q] = "setDeps"
    /\ cache' = MapSet(cache, [key |-> filePath[q],
                               compiled |-> Compiled(q),
                               rewritten |-> FinalCode(Compiled(q)),
                               mtime |-> stats[q],
                               dependencies |-> GetDependencies(Compiled(q), installed),
                               timestamp |-> now])
    /\ before' = BeforeAfterSet(cache, filePath[q])
    /\ Disturb(q)
    /\ Respond(q)
    /\ UNCHANGED << mtime, now, installed, filePath, entry, stats, source,
                    cached, firstKey, stale, follows >>
    /\ UNCHANGED exceptCache

(***************************************************************************)
(* The environment: clock, file system, installed packages.                *)
(***************************************************************************)
Tick ==
    /\ now < MaxTime
    /\ now' = now + 1
    /\ UNCHANGED << cache, mtime, installed, pc, filePath, entry, stats, source,
                    cached, firstKey, resp, before, clean, stale, last, follows >>
    /\ UNCHANGED exceptCache

\* A source is written (or created): new text, mtime of the moment.
WriteSource(p) ==
    /\ mtime[p] # now
    /\ mtime' = [mtime EXCEPT ![p] = now]
    /\ DisturbAll
    /\ UNCHANGED << cache, now, installed, pc, filePath, entry, stats, source,
                    cached, firstKey, resp, before, stale, follows >>
    /\ UNCHANGED exceptCache

\* The file of the imported package is written.
WriteDep ==
    /\ mtime[DepFile] # now
    /\ mtime' = [mtime EXCEPT ![DepFile] = now]
    /\ DisturbAll
    /\ UNCHANGED << cache, now, installed, pc, filePath, entry, stats, source,
                    cached, firstKey, resp, before, stale, follows >>
    /\ UNCHANGED exceptCache

\* A file is removed.
Remove(f) ==
    /\ mtime[f] # NoFile
    /\ mtime' = [mtime EXCEPT ![f] = NoFile]
    /\ DisturbAll
    /\ UNCHANGED << cache, now, installed, pc, filePath, entry, stats, source,
                    cached, firstKey, resp, before, stale, follows >>
    /\ UNCHANGED exceptCache

\* The imported package is installed or uninstalled.
Reinstall ==
    /\ installed' = ~installed
    /\ DisturbAll
    /\ UNCHANGED << cache, mtime, now, pc, filePath, entry, stats, source,
                    cached, firstKey, resp, before, stale, follows >>
    /\ UNCHANGED exceptCache

\* A step of a request in flight.
Step(q) ==
    \/ GetEntry(q)
    \/ GetStat(q)
    \/ GetDeps(q)
    \/ GetDepStat(q)
    \/ Read(q)
    \/ SetEvict(q)
    \/ SetStat(q)
    \/ SetStore(q)
    \/ Finish(q)

\* A change around the server.
Env ==
    \/ Tick
    \/ \E p \in Edited : WriteSource(p)
    \/ WriteDep
    \/ \E f \in Edited \cup {DepFile} : Remove(f)
    \/ Reinstall

\* A request arrives while no other is in flight.
Arrive(p) ==
    /\ \A o \in Procs : Idle(o)
    /\ Request(1, p)

\* Requests one after the other, while files, packages and clock change.
Next ==
    \/ \E p \in Paths : Arrive(p)
    \/ \E q \in Procs : Step(q)
    \/ Env

Spec == Init /\ [][Next]_vars

\* Overlapping requests, with files, packages and clock at rest.
NextConc ==
    \/ \E q \in Procs, p \in Paths : Request(q, p)
    \/ \E q \in Procs : Step(q)

SpecConc == Init /\ [][NextConc]_vars

\* Overlapping requests for the edited source, while it is written and the
\* clock advances.
NextEdit ==
    \/ \E q \in Procs, p \in Edited : Request(q, p)
    \/ \E q \in Procs : Step(q)
    \/ Tick
    \/ \E p \in Edited : WriteSource(p)

SpecEdit == Init /\ [][NextEdit]_vars

(***************************************************************************)
(* The compilation cache and the requests.                                 *)
(***************************************************************************)
\* The entry of p is live: (a) the source has the recorded mtime, (b) the
\* dependency list computed now equals the recorded one, (c) every recorded
\* dependency exists and is not younger than the entry.
Live(p) ==
    /\ p \in Keys(cache)
    /\ LET e == MapGet(cache, p)
       IN  /\ Stat(p, mtime) # NoFile
           /\ Stat(p, mtime) = e.mtime
           /\ GetDependencies(e.compiled, installed) = e.dependencies
           /\ \A i \in 1 .. Len(e.dependencies) :
                  /\ Stat(e.dependencies[i], mtime) # NoFile
                  /\ Stat(e.dependencies[i], mtime) <= e.timestamp

\* The step in which get() returns to handle().
GetReturns(q) ==
    /\ pc[q] \in {"get", "getStat", "getDeps", "getDepStat"}
    /\ pc'[q] \in {"read", "done"}

\* C1: a get() during which neither files, packages nor cache changed
\* returns the stored rewritten script if the entry of its path is live,
\* and null in every other case.
C1_GetReturnsLiveEntry ==
    [][\A q \in Procs :
          GetReturns(q) /\ clean[q] =>
              cached'[q] = IF Live(filePath[q])
                           THEN MapGet(cache, filePath[q]).rewritten
                           ELSE NoCode]_vars

\* A get() has returned the script of an entry after all three checks.
C1_Witness ==
    \E q \in Procs :
        /\ pc[q] = "done"
        /\ clean[q]
        /\ resp[q].from = "cache"
        /\ cached[q] = entry[q].rewritten
        /\ entry[q].dependencies # << >>

\* C2: no two compiles of the same source are in flight at the same time.
C2_AtMostOneCompile ==
    \A q1 \in Procs : \A q2 \in Procs \ {q1} :
        ~(pc[q1] = "compile" /\ pc[q2] = "compile" /\ filePath[q1] = filePath[q2])

\* C3: the cache never holds more entries than its cap.
C3_SizeAtMostCap == Len(cache) <= maxSize

\* C4: a request that directly follows a completed request for the same
\* source, with nothing changed in between, is answered from the cache
\* with the body of the first.
C4_SecondRequestFromCache ==
    \A q \in Procs :
        (pc[q] = "done" /\ follows[q] /\ clean[q] /\ last.path = filePath[q]) =>
            (resp[q].from = "cache" /\ resp[q].body = last.body)

GetDeletes(q) ==
    /\ pc[q] \in {"getStat", "getDeps", "getDepStat"}
    /\ filePath[q] \in Keys(cache)
    /\ filePath[q] \notin Keys(cache')

\* C29: a get() removes an entry only when it is the entry that get() read
\* and validated: an entry stored for the path by a set() since then is
\* never removed by it.
C29_GetDeletesOnlyWhatItRead ==
    [][\A q \in Procs :
          GetDeletes(q) => MapGet(cache, filePath[q]) = entry[q]]_vars

\* The step in which set() of request q gives up: fs.stat threw.
SetFails(q) ==
    /\ pc[q] = "setStat"
    /\ pc'[q] = "done"

\* C30: a set() that fails to store its entry leaves the cache as it was
\* before the call: nothing is added and nothing has been evicted.
C30_FailedSetLeavesCache ==
    [][\A q \in Procs :
          SetFails(q) => (cache' = cache /\ firstKey[q] = NoPath)]_vars

(***************************************************************************)
(* Script text.  A text is the sequence of its lexemes (words and          *)
(* punctuation marks): every string test of the source is a test on whole  *)
(* lexemes, and lengths and positions count lexemes.                       *)
(***************************************************************************)
Quotes == {"'", "\""}
Punctuation == Quotes \cup {"@", "/", ".", " ", "(", ")", ";", "\n", "=", "+", ":", "//"}

Max(a, b) == IF a > b THEN a ELSE b
Min(a, b) == IF a < b THEN a ELSE b

\* An index argument of String.prototype.slice: negative counts from the end.
SliceIndex(n, len) == IF n < 0 THEN Max(len + n, 0) ELSE Min(n, len)

\* t.slice(a, b), positions counted from 0
Slice(t, a, b) == SubSeq(t, SliceIndex(a, Len(t)) + 1, SliceIndex(b, Len(t)))

\* t.slice(a)
SliceFrom(t, a) == Slice(t, a, Len(t))

\* pat occurs in t at position i (from 0)
MatchAt(t, pat, i) ==
    /\ i >= 0
    /\ i + Len(pat) <= Len(t)
    /\ \A j \in 1 .. Len(pat) : t[i + j] = pat[j]

\* t.indexOf(pat, i): the first position at or after i, or -1
RECURSIVE IndexFrom(_, _, _)
IndexFrom(t, pat, i) ==
    IF i + Len(pat) > Len(t) THEN 0 - 1
    ELSE IF MatchAt(t, pat, i) THEN i
    ELSE IndexFrom(t, pat, i + 1)

\* t.includes(pat)
Includes(t, pat) == IndexFrom(t, pat, 0) >= 0

\* t.startsWith(pat)
StartsWith(t, pat) == MatchAt(t, pat, 0)

\* t.endsWith(pat)
EndsWith(t, pat) == MatchAt(t, pat, Len(t) - Len(pat))

\* t.replace(pat, rep) with a string pattern: the first occurrence only
ReplaceFirst(t, pat, rep) ==
    LET i == IndexFrom(t, pat, 0)
    IN  IF i < 0 THEN t
        ELSE SubSeq(t, 1, i) \o rep \o SubSeq(t, i + Len(pat) + 1, Len(t))

\* t.replace(/pat/g, rep) for a literal pattern
RECURSIVE ReplaceAll(_, _, _)
ReplaceAll(t, pat, rep) ==
    LET i == IndexFrom(t, pat, 0)
    IN  IF i < 0 THEN t
        ELSE SubSeq(t, 1, i) \o rep
             \o ReplaceAll(SubSeq(t, i + Len(pat) + 1, Len(t)), pat, rep)

\* The position of the first lexeme of `set` at or after i, or -1.
RECURSIVE Find(_, _, _)
Find(t, set, i) ==
    IF i >= Len(t) THEN 0 - 1
    ELSE IF t[i + 1] \in set THEN i
    ELSE Find(t, set, i + 1)

\* toLowerCase, lexeme by lexeme
LowerCase(t) == [i \in 1 .. Len(t) |->
                   CASE t[i] = "SWISS-LIB" -> "swiss-lib"
                     [] t[i] = "CSS" -> "css"
                     [] t[i] = "someVar" -> "somevar"
                     [] t[i] = "componentUrl" -> "componenturl"
                     [] OTHER -> t[i]]

DotJs == << ".", "js" >>
DotCss == << ".", "css" >>
SwissLib == << "/", "swiss-lib", "/" >>
SwissLibPackages == << "/", "swiss-lib", "/", "packages", "/" >>
SwissPackages == << "/", "swiss-packages", "/" >>
PackagesDir == << "/", "packages", "/" >>
DistDir == << "/", "dist", "/" >>
SrcDir == << "/", "src", "/" >>
LibDir == << "/", "lib", "/" >>

\* `https://cdn.jsdelivr.net/npm/${specifier}/+esm`
Cdn(specifier) ==
    << "https", ":", "/", "/", "cdn", ".", "jsdelivr", ".", "net", "/", "npm", "/" >>
    \o specifier \o << "/", "+", "esm" >>

(***************************************************************************)
(* es-module-lexer: parse(code)[0], the imports of a script in source      *)
(* order.  A static import reports the span of its specifier inside the    *)
(* quotes; a dynamic import reports the span of its argument, quotes       *)
(* included when the argument is a string literal.  A string literal that  *)
(* is not closed on its line is a parse error.                             *)
(***************************************************************************)
ParseError == [ok |-> FALSE, imports |-> << >>]

RECURSIVE Scan(_, _, _)
Scan(t, i, acc) ==
    IF i >= Len(t) THEN [ok |-> TRUE, imports |-> acc]
    ELSE LET c == t[i + 1]
         IN  CASE c = "import" /\ i + 1 < Len(t) /\ t[i + 2] = "(" ->
                    LET s == i + 2
                    IN  IF s < Len(t) /\ t[s + 1] \in Quotes
                        THEN LET close == Find(t, {t[s + 1], "\n"}, s + 1)
                             IN  IF close < 0 \/ t[close + 1] = "\n"
                                 THEN ParseError
                                 ELSE Scan(t, close + 1,
                                           Append(acc, [s |-> s, e |-> close + 1]))
                        ELSE LET close == Find(t, {")"}, s)
                             IN  IF close < 0
                                 THEN ParseError
                                 ELSE Scan(t, close, Append(acc, [s |-> s, e |-> close]))
               [] c = "import" /\ ~(i + 1 < Len(t) /\ t[i + 2] = "(") ->
                    LET open == Find(t, Quotes \cup {";", "\n"}, i + 1)
                    IN  IF open < 0 \/ t[open + 1] \notin Quotes
                        THEN ParseError
                        ELSE LET close == Find(t, {t[open + 1], "\n"}, open + 1)
                             IN  IF close < 0 \/ t[close + 1] = "\n"
                                 THEN ParseError
                                 ELSE Scan(t, close + 1,
                                           Append(acc, [s |-> open + 1, e |-> close]))
               [] c \in Quotes ->
                    LET close == Find(t, {c, "\n"}, i + 1)
                    IN  IF close < 0 \/ t[close + 1] = "\n"
                        THEN ParseError
                        ELSE Scan(t, close + 1, acc)
               [] c = "//" ->
                    LET nl == Find(t, {"\n"}, i)
                    IN  IF nl < 0 THEN [ok |-> TRUE, imports |-> acc]
                        ELSE Scan(t, nl + 1, acc)
               [] OTHER -> Scan(t, i + 1, acc)

Parse(t) == Scan(t, 0, << >>)

(***************************************************************************)
(* ModuleResolver.resolve for a specifier that starts with neither "." nor *)
(* "/" (the only ones rewriteImports passes on), with no import map        *)
(* loaded.                                                                 *)
(***************************************************************************)
\* The one package of the model, and the URL it resolves to when installed.
ScopedPkg == << "@", "s", "/", "n" >>
InstalledUrl == << "/", "swiss-packages", "/", "n", "/", "dist", "/", "index", ".", "js" >>

\* resolveBareImport: a local URL, or the CDN URL.
ResolveBareImport(specifier, inst) ==
    IF inst /\ specifier = ScopedPkg THEN InstalledUrl ELSE Cdn(specifier)

\* /^[@a-zA-Z][a-zA-Z0-9_/@-]*(\.(js|ts|ui|uix|mjs|cjs|jsx|tsx))?$/
ValidPackageName(specifier) ==
    LET n == Len(specifier)
        hasExt == /\ n >= 3
                  /\ specifier[n - 1] = "."
                  /\ specifier[n] \in {"js", "ts", "ui", "uix", "mjs", "cjs", "jsx", "tsx"}
        body == IF hasExt THEN n - 2 ELSE n
    IN  /\ n >= 1
        /\ specifier[1] = "@" \/ specifier[1] \notin Punctuation
        /\ \A i \in 2 .. body : specifier[i] \in {"/", "@"} \/ specifier[i] \notin Punctuation

ResolverResolve(specifier, inst) ==
    IF Includes(specifier, << "." >>) /\ ~StartsWith(specifier, << "@" >>)
    THEN specifier
    ELSE IF ~ValidPackageName(specifier)
    THEN specifier
    ELSE ResolveBareImport(specifier, inst)

(***************************************************************************)
(* rewriteImports(code, importer, resolver).                               *)
(***************************************************************************)
\* The position of the first match of new RegExp(`(['"])${specifier}\\1`)
\* at or after i, or -1.
RECURSIVE QuotedIndex(_, _, _)
QuotedIndex(t, specifier, i) ==
    IF i + Len(specifier) + 2 > Len(t) THEN 0 - 1
    ELSE IF /\ t[i + 1] \in Quotes
            /\ MatchAt(t, specifier, i + 1)
            /\ t[i + Len(specifier) + 2] = t[i + 1]
    THEN i
    ELSE QuotedIndex(t, specifier, i + 1)

\* Quote character, specifier and span of one import the lexer reported.
Locate(t, imp) ==
    LET specifier == Slice(t, imp.s, imp.e)
        hasQuotes == /\ Len(specifier) > 0
                     /\ specifier[1] \in Quotes
                     /\ specifier[1] = specifier[Len(specifier)]
        codeBefore == Slice(t, Max(0, imp.s - 1), imp.s)
        codeAfter == Slice(t, imp.e, Min(Len(t), imp.e + 1))
        m == QuotedIndex(t, specifier, 0)
    IN  IF hasQuotes
        THEN [found |-> TRUE, quoteChar |-> specifier[1],
              actualSpecifier |-> Slice(specifier, 1, 0 - 1),
              start |-> imp.s, end |-> imp.e]
        ELSE IF codeBefore # << >> /\ codeBefore[1] \in Quotes /\ codeBefore = codeAfter
        THEN [found |-> TRUE, quoteChar |-> codeBefore[1],
              actualSpecifier |-> specifier,
              start |-> imp.s - 1, end |-> imp.e + 1]
        ELSE IF m >= 0
        THEN [found |-> TRUE, quoteChar |-> t[m + 1],
              actualSpecifier |-> specifier,
              start |-> m, end |-> m + Len(specifier) + 2]
        ELSE [found |-> FALSE, quoteChar |-> "", actualSpecifier |-> specifier,
              start |-> imp.s, end |-> imp.e]

isSwissPackage(imp) == Includes(imp, SwissPackages)
isLibPath(imp) == Includes(imp, LibDir)
isUixFile(imp) == EndsWith(imp, << ".", "uix" >>) \/ EndsWith(imp, << ".", "ui" >>)

\* The extension the lexer-driven pass gives a relative .js specifier;
\* fs.access succeeds for the extensions in ex.
NewExtension(imp, ex) ==
    IF isSwissPackage(imp) THEN "ts"
    ELSE IF isLibPath(imp) THEN "ts"
    ELSE IF isUixFile(imp)
    THEN (IF "ui" \in ex THEN "ui" ELSE IF "uix" \in ex THEN "uix" ELSE "ui")
    ELSE "ts"

\* before + finalSpecifier + after, and the new offset
ReplaceAt(st, loc, final) ==
    [rewritten |-> Slice(st.rewritten, 0, loc.start + st.offset) \o final
                   \o SliceFrom(st.rewritten, loc.end + st.offset),
     offset |-> st.offset + Len(final) - (loc.end - loc.start)]

\* resolver.resolve with the CDN fallback and the dist -> src preference
Resolved(actualSpecifier, inst) ==
    LET r == ResolverResolve(actualSpecifier, inst)
        resolved == IF \/ r = << >>
                       \/ r = actualSpecifier
                       \/ (~StartsWith(r, << "/" >>) /\ r[1] \notin {"http", "https"})
                    THEN Cdn(actualSpecifier)
                    ELSE r
        swapped == ReplaceFirst(resolved, DistDir, SrcDir)
    IN  IF /\ Includes(resolved, DistDir)
           /\ (Includes(resolved, SwissPackages) \/ Includes(resolved, PackagesDir))
        THEN (IF EndsWith(swapped, DotJs)
              THEN Slice(swapped, 0, 0 - Len(DotJs)) \o << ".", "ts" >>
              ELSE swapped)
        ELSE resolved

\* A wrong reading of the /swiss-lib/ branch, to test C11 against: the built
\* path is swapped for its source twin as well.
ConvertedAndSwapped(a) ==
    LET c == ReplaceFirst(ReplaceAll(a, SwissLibPackages, SwissPackages), DistDir, SrcDir)
    IN  IF EndsWith(c, DotJs) THEN Slice(c, 0, 0 - Len(DotJs)) \o << ".", "ts" >> ELSE c

\* actualSpecifier.replace(/\/swiss-lib\/packages\//g, "/swiss-packages/")
Converted(a) == ReplaceAll(a, SwissLibPackages, SwissPackages)

\* One turn of the loop over the imports.
ProcessImport(t, st, imp, ctx) ==
    LET loc == Locate(t, imp)
        a == loc.actualSpecifier
        q == << loc.quoteChar >>
        resolved == Resolved(a, ctx.installed)
        replaced == ReplaceAt(st, loc, q \o resolved \o q)
    IN  IF Includes(Slice(t, imp.s, imp.e), DotCss) THEN st
        ELSE IF ~loc.found THEN st
        ELSE IF /\ StartsWith(a, << "." >>)
                /\ EndsWith(a, DotJs)
                /\ ~Includes(a, << "node_modules" >>)
        THEN ReplaceAt(st, loc, q \o Slice(a, 0, 0 - Len(DotJs))
                                  \o << ".", NewExtension(ctx.importer, ctx.exists) >> \o q)
        ELSE IF Includes(a, SwissLib)
        THEN ReplaceAt(st, loc, q \o Converted(a) \o q)
        ELSE IF StartsWith(a, << "." >>) \/ StartsWith(a, << "/" >>) THEN st
        ELSE IF ~(Len(a) > 0 /\ (a[1] = "@" \/ a[1] \notin Punctuation)) THEN st
        ELSE IF Includes(replaced.rewritten, a) /\ ~Includes(replaced.rewritten, resolved)
        THEN [rewritten |-> ReplaceAll(replaced.rewritten, a, resolved),
              offset |-> replaced.offset]
        ELSE replaced

RECURSIVE ProcessImports(_, _, _, _, _)
ProcessImports(t, st, imports, k, ctx) ==
    IF k > Len(imports) THEN st
    ELSE ProcessImports(t, ProcessImport(t, st, imports[k], ctx), imports, k + 1, ctx)

\* bareImportPattern.test(t), for
\* /(?:import|from|export).*['"](@[^'"]+\/[^'"]+)[^'"]*['"]/ : a keyword,
\* later on its line a quote followed by @, and a / with text on both sides
\* before the next quote.  Positions count from 1 here.
BareImportPatternTest(t) ==
    \E k \in 1 .. Len(t) :
        /\ t[k] \in {"import", "from", "export"}
        /\ \E q \in (k + 1) .. (Len(t) - 1) :
            /\ t[q] \in Quotes
            /\ \A j \in (k + 1) .. (q - 1) : t[j] # "\n"
            /\ t[q + 1] = "@"
            /\ LET c == Find(t, Quotes, q + 1) + 1
               IN  /\ c > 0
                   /\ \E m \in (q + 3) .. (c - 2) : t[m] = "/"

\* The extension the regex pass gives a relative .js specifier.
RegexNewExtension(imp) ==
    IF isSwissPackage(imp) THEN "ts"
    ELSE IF isLibPath(imp) THEN "ts"
    ELSE IF isUixFile(imp)
    THEN (IF EndsWith(imp, << ".", "ui" >>) THEN "ui" ELSE "uix")
    ELSE "ts"

\* The position of the first lexeme at or after i that is not white space.
RECURSIVE SkipSpace(_, _)
SkipSpace(t, i) ==
    IF i < Len(t) /\ t[i + 1] \in {" ", "\n"} THEN SkipSpace(t, i + 1) ELSE i

\* The match of /from\s+(["'])(\.\.?\/[^"']*?)(\.js)(\1)/ that starts at
\* position i (from 0), if there is one.
RelativeJsMatch(t, i) ==
    LET open == SkipSpace(t, i + 1)
        close == Find(t, Quotes, open + 1)
        content == Slice(t, open + 1, close)
    IN  IF /\ t[i + 1] = "from"
           /\ open > i + 1
           /\ open < Len(t)
           /\ t[open + 1] \in Quotes
           /\ close >= 0
           /\ t[close + 1] = t[open + 1]
           /\ \/ StartsWith(content, << ".", "/" >>)
              \/ StartsWith(content, << ".", ".", "/" >>)
           /\ EndsWith(content, DotJs)
           /\ Len(content) >= 2 + Len(DotJs)
        THEN [found |-> TRUE, quote |-> t[open + 1], end |-> close + 1,
              path |-> Slice(content, 0, 0 - Len(DotJs))]
        ELSE [found |-> FALSE, quote |-> "", end |-> i, path |-> << >>]

\* rewritten.replace(relativeJsImportRegex, ...) from position i on
RECURSIVE RelativeJsFix(_, _, _)
RelativeJsFix(t, imp, i) ==
    IF i >= Len(t) THEN << >>
    ELSE LET m == RelativeJsMatch(t, i)
         IN  IF ~m.found THEN << t[i + 1] >> \o RelativeJsFix(t, imp, i + 1)
             ELSE IF Includes(m.path, << "node_modules" >>) \/ ~StartsWith(m.path, << "." >>)
             THEN Slice(t, i, m.end) \o RelativeJsFix(t, imp, m.end)
             ELSE << "from", " ", m.quote >> \o m.path \o << ".", RegexNewExtension(imp) >>
                  \o << m.quote >> \o RelativeJsFix(t, imp, m.end)

\* Final pass: remaining /swiss-lib/ paths.
FinalPass(t) ==
    IF Includes(t, SwissLib)
    THEN LET p1 == ReplaceAll(t, SwissLibPackages, SwissPackages)
             p2 == ReplaceAll(p1, SwissLib, SwissPackages)
             p3 == ReplaceAll(p2, << "'" >> \o SwissLib, << "'" >> \o SwissPackages)
         IN  ReplaceAll(p3, << "\"" >> \o SwissLib, << "\"" >> \o SwissPackages)
    ELSE t

\* The call ends in the catch clause.
Thrown(t, imp, inst, ex) ==
    \/ ~Parse(t).ok
    \/ /\ Len(Parse(t).imports) > 0
       /\ BareImportPatternTest(
              ProcessImports(t, [rewritten |-> t, offset |-> 0], Parse(t).imports, 1,
                             [importer |-> imp, installed |-> inst, exists |-> ex]).rewritten)

\* rewriteImports.  parse throwing, and rewritten.matchAll(bareImportPattern)
\* throwing TypeError (the pattern has no g flag), end in the catch clause,
\* which returns the script as it came.
RewriteImports(t, imp, inst, ex) ==
    LET parsed == Parse(t)
        st == ProcessImports(t, [rewritten |-> t, offset |-> 0], parsed.imports, 1,
                             [importer |-> imp, installed |-> inst, exists |-> ex])
    IN  IF ~parsed.ok THEN t
        ELSE IF Len(parsed.imports) = 0 THEN t
        ELSE IF BareImportPatternTest(st.rewritten) THEN t
        ELSE FinalPass(RelativeJsFix(st.rewritten, imp, 0))

(***************************************************************************)
(* The scripts, importers and file systems rewriteImports is applied to.   *)
(***************************************************************************)
StaticImport(q, specifier) ==
    << "import", " ", "x", " ", "from", " ", q >> \o specifier \o << q, ";", "\n" >>
SideEffectImport(q, specifier) ==
    << "import", " ", q >> \o specifier \o << q, ";", "\n" >>
DynamicImport(arg) ==
    << "import", "(" >> \o arg \o << ")", ";", "\n" >>
Assignment(q, str) ==
    << "x", " ", "=", " ", q >> \o str \o << q, ";", "\n" >>

Statements ==
    { StaticImport("'", ScopedPkg),
      SideEffectImport("'", ScopedPkg \o << "/", "style", ".", "css" >>),
      StaticImport("'", << ".", "/", "a", ".", "js" >>),
      StaticImport("'", << "/", "swiss-lib", "/", "packages", "/", "core", "/", "dist",
                           "/", "index", ".", "js" >>),
      StaticImport("\"", << "/", "SWISS-LIB", "/", "core", ".", "ts" >>),
      DynamicImport(<< "'" >> \o ScopedPkg \o << "'" >>),
      DynamicImport(<< "someVar" >>),
      DynamicImport(<< "def", ".", "componentUrl" >>),
      Assignment("'", << "someVar" >>),
      Assignment("\"", << "def", ".", "componentUrl" >>),
      << "//", " ", "/", "swiss-lib", "/", "core", "\n" >>,
      << "x", " ", "=", " ", "'", "\n" >> }

RECURSIVE Concat(_)
Concat(ss) == IF ss = << >> THEN << >> ELSE Head(ss) \o Concat(Tail(ss))

Scripts == UNION {{Concat(ss) : ss \in [1 .. n -> Statements]} : n \in 0 .. MaxStmts}

Importers ==
    { << "/", "app", "/", "src", "/", "index", ".", "ui" >>,
      << "/", "app", "/", "src", "/", "index", ".", "uix" >>,
      << "/", "app", "/", "src", "/", "main", ".", "ts" >>,
      << "/", "app", "/", "lib", "/", "view", ".", "ui" >>,
      << "/", "repo", "/", "swiss-packages", "/", "core", "/", "src", "/", "index", ".", "ts" >> }

InitRewrite ==
    /\ InitCache
    /\ InitHmr
    /\ hasPages
    /\ InitServe
    /\ InitRegistry
    /\ InitResolver
    /\ InitPython
    /\ InitPort
    /\ code \in Scripts
    /\ importer \in Importers
    /\ exists \in SUBSET {"js", "ui", "uix"}
    /\ rpc = "init"
    /\ out1 = << >>
    /\ out2 = << >>

\* rewriteImports(code, importer, resolver)
RewriteOnce ==
    /\ rpc = "init"
    /\ rpc' = "once"
    /\ out1' = RewriteImports(code, importer, installed, exists)
    /\ UNCHANGED << code, importer, exists, out2 >>
    /\ UNCHANGED exceptRewriter

\* rewriteImports applied to its own output
RewriteTwice ==
    /\ rpc = "once"
    /\ rpc' = "twice"
    /\ out2' = RewriteImports(out1, importer, installed, exists)
    /\ UNCHANGED << code, importer, exists, out1 >>
    /\ UNCHANGED exceptRewriter

NextRewrite ==
    \/ RewriteOnce
    \/ RewriteTwice

SpecRewrite == InitRewrite /\ [][NextRewrite]_vars

(***************************************************************************)
(* The import rewriter.                                                    *)
(***************************************************************************)
\* C7: whatever the script and the importer, the text rewriteImports
\* returns holds no /swiss-lib/, in any letter case.
C7_NoInternalPrefix ==
    rpc # "init" => ~Includes(LowerCase(out1), SwissLib)

\* A quoted @scope/name in specifier position opens at position i (from 1).
BareScopedAt(t, i) ==
    /\ i >= 3
    /\ i + 5 <= Len(t)
    /\ t[i] \in Quotes
    /\ t[i + 1] = "@"
    /\ t[i + 2] \notin Punctuation
    /\ t[i + 3] = "/"
    /\ t[i + 4] \notin Punctuation
    /\ t[i + 5] = t[i]
    /\ \/ t[i - 1] = " " /\ t[i - 2] \in {"from", "import"}
       \/ t[i - 1] = "(" /\ t[i - 2] = "import"

\* C8: the text rewriteImports returns holds no bare scoped specifier, that
\* is no quoted @scope/name as the specifier of an import.
C8_NoBareScopedSpecifier ==
    rpc # "init" => \A i \in 1 .. Len(out1) : ~BareScopedAt(out1, i)

\* C9: rewriting the output of rewriteImports again, importer and resolver
\* unchanged, returns it as it is.
C9_Idempotent ==
    rpc = "twice" => out2 = out1

\* Every import the lexer reports in t is a dynamic import whose argument is
\* not a string literal.
OnlyNonLiteral(t) ==
    LET parsed == Parse(t)
    IN  /\ parsed.ok
        /\ Len(parsed.imports) > 0
        /\ \A k \in 1 .. Len(parsed.imports) :
              LET imp == parsed.imports[k]
              IN  /\ imp.s >= 2
                  /\ t[imp.s] = "("
                  /\ t[imp.s - 1] = "import"
                  /\ t[imp.s + 1] \notin Quotes

\* C10: a script whose only imports are dynamic imports of a non-literal
\* argument (and that holds no /swiss-lib/ path) is returned as it came:
\* nothing is substituted anywhere on account of those imports.
C10_NonLiteralLeftAlone ==
    (rpc # "init" /\ OnlyNonLiteral(code) /\ ~Includes(code, SwissLib)) => out1 = code

\* Every import the lexer reports in t has a string literal for specifier.
AllLiteral(t) ==
    LET parsed == Parse(t)
    IN  \A k \in 1 .. Len(parsed.imports) :
            LET imp == parsed.imports[k]
            IN  \/ t[imp.s + 1] \in Quotes
                \/ (imp.s >= 1 /\ t[imp.s] \in Quotes)

BuiltSpecifier ==
    << "/", "swiss-lib", "/", "packages", "/", "core", "/", "dist", "/", "index", ".", "js" >>
BuiltConverted ==
    << "/", "swiss-packages", "/", "core", "/", "dist", "/", "index", ".", "js" >>
SourceTwin ==
    << "/", "swiss-packages", "/", "core", "/", "src", "/", "index", ".", "ts" >>

\* rewriteImports has handled, without ending in its catch clause, a script
\* of literal imports one of which is /swiss-lib/packages/core/dist/index.js.
BuiltImportRewritten ==
    /\ rpc # "init"
    /\ Includes(code, << "from", " ", "'" >> \o BuiltSpecifier \o << "'" >>)
    /\ AllLiteral(code)
    /\ ~Thrown(code, importer, installed, exists)

RelativeJs == << ".", "/", "a", ".", "js" >>
Repaired(e) == << ".", "/", "a", ".", e >>

\* The number of places a text holds a pattern at.
Occurrences(t, pat) == Cardinality({i \in 0 .. Len(t) : MatchAt(t, pat, i)})

\* C26: a relative .js specifier that names an existing file is returned
\* unchanged: the output holds ./a.js wherever the script did.
C26_ExistingJsUnchanged ==
    (rpc # "init" /\ "js" \in exists) =>
        /\ Occurrences(out1, RelativeJs) = Occurrences(code, RelativeJs)
        /\ \A e \in {"ts", "ui", "uix"} : ~Includes(out1, Repaired(e))

\* The extension the decision table gives, by the importer path alone.
TableExtension(imp) ==
    IF Includes(imp, SwissPackages) \/ Includes(imp, LibDir) THEN "ts"
    ELSE IF EndsWith(imp, << ".", "ui" >>) THEN "ui"
    ELSE IF EndsWith(imp, << ".", "uix" >>) THEN "uix"
    ELSE "ts"

\* C27: a repaired relative .js specifier carries the extension the
\* decision table gives for the importer, whichever of ./a.ui and ./a.uix
\* exist.
C27_ExtensionByImporter ==
    rpc # "init" =>
        \A e \in {"ts", "ui", "uix"} \ {TableExtension(importer)} :
            ~Includes(out1, Repaired(e))

(***************************************************************************)
(* HMREngine: the workspace watcher, notifyChange and broadcast, and the   *)
(* route watcher of setupFileRouter.                                       *)
(***************************************************************************)
Subs == 1 .. NSubs

\* The position of the last "." of a path, or -1.
RECURSIVE LastDot(_, _)
LastDot(path, i) ==
    IF i < 0 THEN 0 - 1
    ELSE IF path[i + 1] = "." THEN i
    ELSE LastDot(path, i - 1)

\* filePath.split(".").pop()?.toLowerCase()
FileExt(path) == LowerCase(SliceFrom(path, LastDot(path, Len(path) - 1) + 1))

getUpdateType(fileExt, path) ==
    IF fileExt = << >> \/ path = << >> THEN "reload"
    ELSE IF fileExt \in {<< "css" >>, << "scss" >>, << "sass" >>} THEN "style"
    ELSE IF /\ fileExt \in {<< "js" >>, << "ts" >>, << "jsx" >>, << "tsx" >>}
            /\ \/ Includes(path, << "/", "components", "/" >>)
               \/ Includes(path, << "/", "pages", "/" >>)
    THEN "hot"
    ELSE "reload"

\* The application root and its pages directory.
AppRoot == << "/", "app" >>
PagesDir == AppRoot \o << "/", "src", "/", "pages" >>

\* Files below the application root.
AppFiles ==
    { AppRoot \o << "/", "src", "/", "components", "/", "c", ".", "ts" >>,
      AppRoot \o << "/", "src", "/", "components", "/", "b", ".", "ui" >>,
      AppRoot \o << "/", "src", "/", "styles", "/", "main", ".", "CSS" >>,
      AppRoot \o << "/", "src", "/", "styles", "/", "theme", ".", "scss" >>,
      AppRoot \o << "/", "index", ".", "html" >>,
      AppRoot \o << "/", "src", "/", "util", ".", "ts" >>,
      PagesDir \o << "/", "home", ".", "ui" >>,
      PagesDir \o << "/", "about", ".", "tsx" >>,
      AppRoot \o << "/", "dist", "/", "out", ".", "js" >> }

\* ignored: ["**/node_modules/**", "**/.git/**", "**/dist/**"]
Ignored(path) ==
    \/ Includes(path, << "/", "node_modules", "/" >>)
    \/ Includes(path, << "/", ".", "git", "/" >>)
    \/ Includes(path, << "/", "dist", "/" >>)

\* The route watcher: routesToScan[0], extensions .ui and .uix.
RouteWatched(path) ==
    /\ hasPages
    /\ StartsWith(path, PagesDir \o << "/" >>)
    /\ EndsWith(path, << ".", "ui" >>) \/ EndsWith(path, << ".", "uix" >>)

\* The message of one change; `change` tells the changes apart (history).
Update(e) ==
    [type |-> "update", path |-> e.path,
     updateType |-> getUpdateType(FileExt(e.path), e.path), change |-> e.change]

\* broadcast(message): client.send for every client whose readyState is OPEN
Broadcast(message) ==
    inbox' = [c \in Subs |-> IF clients[c] = "OPEN"
                             THEN Append(inbox[c], message)
                             ELSE inbox[c]]

\* wss.on("connection"): this.clients.add(ws)
Connect(c) ==
    /\ clients[c] = "none"
    /\ clients' = [clients EXCEPT ![c] = "OPEN"]
    /\ inbox' = [inbox EXCEPT ![c] = << >>]
    /\ UNCHANGED << hasPages, nchanges, pendingW, pendingR, rescanning, steady >>
    /\ UNCHANGED exceptHmr

\* The socket starts to close: it is in the set, its readyState is CLOSING.
Closing(c) ==
    /\ clients[c] = "OPEN"
    /\ clients' = [clients EXCEPT ![c] = "CLOSING"]
    /\ steady' = [k \in 1 .. MaxChanges |-> steady[k] \ {c}]
    /\ UNCHANGED << inbox, hasPages, nchanges, pendingW, pendingR, rescanning >>
    /\ UNCHANGED exceptHmr

\* ws.on("close"): this.clients.delete(ws)
Closed(c) ==
    /\ clients[c] = "CLOSING"
    /\ clients' = [clients EXCEPT ![c] = "none"]
    /\ UNCHANGED << inbox, hasPages, nchanges, pendingW, pendingR, rescanning, steady >>
    /\ UNCHANGED exceptHmr

\* A file is written and the write has finished: each watcher that watches
\* it will emit "change".
FileChange(path) ==
    /\ nchanges < MaxChanges
    /\ nchanges' = nchanges + 1
    /\ LET e == [change |-> nchanges + 1, path |-> path]
       IN  /\ pendingW' = IF Ignored(path) THEN pendingW ELSE pendingW \cup {e}
           /\ pendingR' = IF RouteWatched(path) THEN pendingR \cup {e} ELSE pendingR
    /\ steady' = [steady EXCEPT ![nchanges + 1] =
                      IF Ignored(path) THEN {} ELSE {c \in Subs : clients[c] = "OPEN"}]
    /\ UNCHANGED << clients, inbox, hasPages, rescanning >>
    /\ UNCHANGED exceptHmr

\* this.watcher.on("change", ...)
WatcherChange(e) ==
    /\ e \in pendingW
    /\ pendingW' = pendingW \ {e}
    /\ Broadcast(Update(e))
    /\ UNCHANGED << clients, hasPages, nchanges, pendingR, rescanning, steady >>
    /\ UNCHANGED exceptHmr

\* result.routeWatcher.on("change", ...): up to await scanRoutes
RouteChange(e) ==
    /\ e \in pendingR
    /\ pendingR' = pendingR \ {e}
    /\ rescanning' = rescanning \cup {e}
    /\ UNCHANGED << clients, inbox, hasPages, nchanges, pendingW, steady >>
    /\ UNCHANGED exceptHmr

\* ... the routes are scanned: config.hmr.notifyChange(filePath)
RouteNotify(e) ==
    /\ e \in rescanning
    /\ rescanning' = rescanning \ {e}
    /\ Broadcast(Update(e))
    /\ UNCHANGED << clients, hasPages, nchanges, pendingW, pendingR, steady >>
    /\ UNCHANGED exceptHmr

Events == [change : 1 .. MaxChanges, path : AppFiles]

NextHmr ==
    \/ \E c \in Subs : Connect(c)
    \/ \E c \in Subs : Closing(c)
    \/ \E c \in Subs : Closed(c)
    \/ \E path \in AppFiles : FileChange(path)
    \/ \E e \in Events : WatcherChange(e)
    \/ \E e \in Events : RouteChange(e)
    \/ \E e \in Events : RouteNotify(e)

\* The server has started: an idle cache and rewriter, no subscriber yet.
InitServer ==
    /\ InitCache /\ installed = TRUE
    /\ InitRewriter
    /\ InitHmr
    /\ InitServe
    /\ InitRegistry
    /\ InitResolver
    /\ InitPython
    /\ InitPort

SpecHmr == InitServer /\ [][NextHmr]_vars

(***************************************************************************)
(* Update messages.                                                        *)
(***************************************************************************)
\* The update type the claim gives a path.
ClaimedUpdateType(path) ==
    LET ext == FileExt(path)
    IN  IF ext \in {<< "css" >>, << "scss" >>, << "sass" >>} THEN "style"
        ELSE IF /\ ext \in {<< "js" >>, << "ts" >>, << "jsx" >>, << "tsx" >>,
                            << "ui" >>, << "uix" >>}
                /\ \/ Includes(path, << "/", "components", "/" >>)
                   \/ Includes(path, << "/", "pages", "/" >>)
        THEN "hot"
        ELSE "reload"

\* C12: every update message carries the type of its path: style for css,
\* scss, sass; hot for js, ts, jsx, tsx, ui, uix under /components/ or
\* /pages/; reload otherwise.
C12_UpdateType ==
    \A c \in Subs : \A i \in 1 .. Len(inbox[c]) :
        inbox[c][i].updateType = ClaimedUpdateType(inbox[c][i].path)

\* The messages about change k sent to subscriber c.
Received(c, k) == Cardinality({i \in 1 .. Len(inbox[c]) : inbox[c][i].change = k})

\* Every watcher has emitted change k and every handler has run.
Handled(k) ==
    /\ k <= nchanges
    /\ \A e \in pendingW \cup pendingR \cup rescanning : e.change # k

\* C13: once a change of a watched file is handled, every subscriber
\* attached since before the change has exactly one message about it, and
\* no subscriber has two.
C13_OneMessagePerSubscriber ==
    \A k \in 1 .. MaxChanges :
        /\ \A c \in Subs : Received(c, k) <= 1
        /\ Handled(k) => \A c \in steady[k] : Received(c, k) = 1

(***************************************************************************)
(* The request pipeline: the handlers of the source extensions and the     *)
(* middleware chain of setupMiddleware, static files and the single-page   *)
(* fallback.  A URL is a lexeme sequence; the requested file is x.<ext>    *)
(* in the directory the URL resolves to.                                   *)
(***************************************************************************)
\* The file names a directory may hold: x.<ext>, and X.JS for the
\* case-insensitive scan of the node-module handler.
FileKinds == {"ui", "uix", "ts", "js", "mjs", "JS", "css"}

\* The files a compiler or transformer runs on.
Compilable == {"ui", "uix", "ts"}

\* url.endsWith("." + e)
HasExt(u, e) == EndsWith(u, << ".", e >>)

\* url.replace(/\.<old>$/, "." + e)
WithExt(u, e) == Slice(u, 0, Len(u) - 1) \o << e >>

\* fs.access(resolveFilePath(u)) succeeds
Exists(u, pr) == \E e \in pr : HasExt(u, e)

\* The handler sent a response.  type "unset": it set no Content-Type.
Sent(st, ct, b, loc, cs, f) ==
    [sent |-> TRUE, status |-> st, type |-> ct, body |-> b, location |-> loc,
     code |-> "none", calls |-> cs, failed |-> f]

\* The handler threw new Error(msg), or the compiler did.
Threw(msg, cs, f) ==
    [sent |-> FALSE, status |-> 0, type |-> "unset", body |-> msg, location |-> << >>,
     code |-> "none", calls |-> cs, failed |-> f]

Javascript == "application/javascript"
Script == << "script" >>
FileNotFound == << "File not found: " >>
CompileError == << "compile error" >>

\* UIHandler.handle(url, res)
UIHandle(u, pr, br) ==
    LET cs == << [handler |-> "ui", url |-> u] >>
    IN  IF ~Exists(u, pr)
        THEN Threw(FileNotFound \o u \o << " (resolved to: ", "filePath", ")" >>, cs, FALSE)
        ELSE IF Exists(u, br) THEN Threw(CompileError, cs, TRUE)
        ELSE Sent(200, Javascript, Script, << >>, cs, FALSE)

\* UIXHandler.handle(url, res): no fs.access before the read; for an absent
\* file fs.readFile throws the system error, whose code is ENOENT
UIXHandle(u, pr, br) ==
    LET cs == << [handler |-> "uix", url |-> u] >>
    IN  IF ~Exists(u, pr)
        THEN [Threw(<< "ENOENT: no such file or directory" >>, cs, FALSE)
                 EXCEPT !.code = "ENOENT"]
        ELSE IF Exists(u, br) THEN Threw(CompileError, cs, TRUE)
        ELSE Sent(200, Javascript, Script, << >>, cs, FALSE)

RECURSIVE TSHandle(_, _, _)
RECURSIVE Alternatives(_, _, _, _, _, _)

\* The handler that owns extension e.
Owning(e, u, pr, br) ==
    CASE e = "ts" -> TSHandle(u, pr, br)
      [] e = "ui" -> UIHandle(u, pr, br)
      [] e = "uix" -> UIXHandle(u, pr, br)

\* for (const alt of alternatives) { try { await fs.access(altPath);
\* return await alt.handler(); } catch { /* try next */ } }
\* cs, f: the handlers invoked and the failures so far.
Alternatives(exts, u, pr, br, cs, f) ==
    IF exts = << >> THEN Threw(<< "no alternative" >>, cs, f)
    ELSE LET v == WithExt(u, Head(exts))
         IN  IF ~Exists(v, pr) THEN Alternatives(Tail(exts), u, pr, br, cs, f)
             ELSE LET o == Owning(Head(exts), v, pr, br)
                  IN  IF o.sent
                      THEN [o EXCEPT !.calls = cs \o o.calls, !.failed = f \/ o.failed]
                      ELSE Alternatives(Tail(exts), u, pr, br,
                                        cs \o o.calls, f \/ o.failed)

\* TSHandler.handle(url, res)
TSHandle(u, pr, br) ==
    LET cs == << [handler |-> "ts", url |-> u] >>
    IN  IF Exists(u, pr)
        THEN IF Exists(u, br) THEN Threw(CompileError, cs, TRUE)
             ELSE Sent(200, Javascript, Script, << >>, cs, FALSE)
        ELSE LET o == Alternatives(<< "ui", "uix" >>, u, pr, br, cs, FALSE)
             IN  IF o.sent THEN o
                 ELSE Sent(404, "unset", FileNotFound \o u, << >>, o.calls, o.failed)

\* JSHandler.handle(url, res)
JSHandle(u, pr, br) ==
    LET cs == << [handler |-> "js", url |-> u] >>
    IN  IF Exists(u, pr) THEN Sent(200, Javascript, Script, << >>, cs, FALSE)
        ELSE LET o == Alternatives(<< "ts", "ui", "uix" >>, u, pr, br, cs, FALSE)
             IN  IF o.sent THEN o
                 ELSE Threw(FileNotFound \o u \o << " (tried .js, .ts, .ui, .uix)" >>,
                            o.calls, o.failed)

\* MJSHandler.handle(url, res)
MJSHandle(u, pr, br) ==
    LET cs == << [handler |-> "mjs", url |-> u] >>
        o == JSHandle(WithExt(u, "js"), pr, br)
    IN  IF Exists(u, pr) THEN Sent(200, Javascript, Script, << >>, cs, FALSE)
        ELSE IF Exists(WithExt(u, "js"), pr) /\ o.sent
        THEN [o EXCEPT !.calls = cs \o o.calls]
        ELSE Threw(FileNotFound \o u \o << " (tried .mjs, .js)" >>, cs, FALSE)

NodeModules == << "/", "node_modules", "/" >>

\* No redirect.
NoUrl == << >>

\* NodeModuleHandler.getNodeModuleCdnRedirect(url)
getNodeModuleCdnRedirect(u) ==
    IF ~StartsWith(u, NodeModules) THEN NoUrl
    ELSE LET after == SliceFrom(u, Len(NodeModules))
             firstSlash == IndexFrom(after, << "/" >>, 0)
             pkgName == IF firstSlash = 0 - 1 THEN after ELSE Slice(after, 0, firstSlash)
         IN  IF after = << >> THEN NoUrl
             ELSE IF pkgName = << >> \/ pkgName = << "." >> \/ pkgName = << ".", "." >>
             THEN NoUrl
             ELSE Cdn(pkgName)

\* res.redirect(302, cdnRedirect), or res.status(404).send("Module not found")
RedirectOrNotFound(u, cs, f) ==
    IF getNodeModuleCdnRedirect(u) # NoUrl
    THEN Sent(302, "unset", << >>, getNodeModuleCdnRedirect(u), cs, f)
    ELSE Sent(404, "unset", << "Module not found: " >> \o u, << >>, cs, f)

\* NodeModuleHandler.handle(url, res); the file is looked for under the
\* application root, the workspace root and the framework monorepo.
NodeModuleHandle(u, pr, br) ==
    LET cs == << [handler |-> "node_modules", url |-> u] >>
    IN  IF Exists(u, pr) THEN Sent(200, Javascript, Script, << >>, cs, FALSE)
        ELSE IF HasExt(u, "js")
        THEN IF "JS" \in pr THEN Sent(200, Javascript, Script, << >>, cs, FALSE)
             ELSE LET o == Alternatives(<< "ts", "ui", "uix" >>, u, pr, br, cs, FALSE)
                  IN  IF o.sent THEN o ELSE RedirectOrNotFound(u, o.calls, o.failed)
        ELSE RedirectOrNotFound(u, cs, FALSE)

\* The directories requests are made in.
Directories ==
    { << "/", "src", "/" >>,
      << "/", "lib", "/", "ui", "/" >>,
      << "/", "packages", "/", "p", "/" >>,
      << "/", "swiss-packages", "/", "core", "/", "src", "/" >>,
      << "/", "modules", "/", "cart", "/" >>,
      NodeModules \o << "react", "/" >>,
      NodeModules \o << "@", "swissjs", "/", "core", "/" >>,
      NodeModules \o << ".", "/" >> }

\* The requests: the source URLs, a style sheet under /src and a page.
Urls ==
    { d \o << "x", ".", e >> : d \in Directories, e \in {"ui", "uix", "ts", "js", "mjs"} }
    \cup { << "/", "src", "/", "x", ".", "css" >>, << "/", "about" >> }

\* res.send(body) with a string body: Content-Type is the header set so
\* far, text/html when none was set.
Effective(hdr, ct) ==
    IF ct # "unset" THEN ct ELSE IF hdr # "unset" THEN hdr ELSE "text/html"

\* The handler has sent its response.
Send(o, hdr) ==
    /\ res' = [status |-> o.status, type |-> Effective(hdr, o.type),
               body |-> o.body, location |-> o.location]
    /\ stage' = "done"

\* res.status(st).setHeader("Content-Type", ct).send(b), without the header
\* when ct is "unset"
Reply(st, hdr, ct, b) ==
    /\ res' = [status |-> st, type |-> Effective(hdr, ct), body |-> b, location |-> << >>]
    /\ stage' = "done"

\* The handlers a middleware made ran: what they invoked, what failed.
Ran(o) ==
    /\ calls' = calls \o o.calls
    /\ failed' = (failed \/ o.failed)

\* next(): the request goes to the next middleware, no response is sent.
NextMiddleware(to) ==
    /\ stage' = to
    /\ UNCHANGED res

\* A request arrives.
Receive(u) ==
    /\ stage \in {"idle", "done"}
    /\ url' = u
    /\ stage' = "packages"
    /\ ctype' = "unset"
    /\ res' = NoRes
    /\ calls' = << >>
    /\ failed' = FALSE
    /\ passedOn' = FALSE
    /\ UNCHANGED << present, broken >>
    /\ UNCHANGED exceptServe

\* app.use("/packages", ...)
PackagesMiddleware ==
    /\ stage = "packages"
    /\ IF /\ StartsWith(url, << "/", "packages", "/" >>)
          /\ HasExt(url, "ts") \/ HasExt(url, "js") \/ HasExt(url, "mjs")
       THEN LET o == IF HasExt(url, "ts") THEN TSHandle(url, present, broken)
                     ELSE IF HasExt(url, "js") THEN JSHandle(url, present, broken)
                     ELSE MJSHandle(url, present, broken)
            IN  /\ Ran(o)
                /\ IF o.sent THEN Send(o, ctype)
                   ELSE Reply(500, ctype, "text/plain", << "Error: " >> \o o.body)
       ELSE /\ NextMiddleware("src")
            /\ UNCHANGED << calls, failed >>
    /\ UNCHANGED << url, present, broken, ctype, passedOn >>
    /\ UNCHANGED exceptServe

\* app.use("/src", ...)
SrcMiddleware ==
    /\ stage = "src"
    /\ IF ~StartsWith(url, << "/", "src", "/" >>)
       THEN /\ NextMiddleware("prestatic")
            /\ UNCHANGED << calls, failed, passedOn >>
       ELSE IF HasExt(url, "ui") \/ HasExt(url, "uix") \/ HasExt(url, "ts")
       THEN LET o == IF HasExt(url, "ui") THEN UIHandle(url, present, broken)
                     ELSE IF HasExt(url, "uix") THEN UIXHandle(url, present, broken)
                     ELSE TSHandle(url, present, broken)
            IN  /\ Ran(o)
                /\ IF o.sent THEN Send(o, ctype)
                   ELSE IF o.code = "ENOENT"
                   THEN Reply(404, ctype, "text/plain", FileNotFound \o url)
                   ELSE Reply(500, ctype, "text/plain",
                              << "Error loading module: " >> \o o.body)
                /\ UNCHANGED passedOn
       ELSE IF HasExt(url, "js") \/ HasExt(url, "mjs")
       THEN LET o == IF HasExt(url, "js") THEN JSHandle(url, present, broken)
                     ELSE MJSHandle(url, present, broken)
            IN  /\ Ran(o)
                /\ IF o.sent
                   THEN Send(o, ctype) /\ UNCHANGED passedOn
                   ELSE NextMiddleware("prestatic") /\ passedOn' = TRUE
       ELSE /\ IF Exists(url, present)
               THEN Reply(200, ctype, "text/css", << "style" >>)
               ELSE Reply(404, ctype, "text/plain", FileNotFound \o url)
            /\ UNCHANGED << calls, failed, passedOn >>
    /\ UNCHANGED << url, present, broken, ctype >>
    /\ UNCHANGED exceptServe

\* The middleware for /lib/ source files before the static files.
PreStatic ==
    /\ stage = "prestatic"
    /\ IF /\ StartsWith(url, << "/", "lib", "/" >>)
          /\ \/ HasExt(url, "ui") \/ HasExt(url, "uix") \/ HasExt(url, "ts")
             \/ HasExt(url, "js") /\ ~Includes(url, << "node_modules" >>)
       THEN /\ ctype' = Javascript
            /\ IF HasExt(url, "ui") \/ HasExt(url, "uix")
               THEN LET o == IF HasExt(url, "ui") THEN UIHandle(url, present, broken)
                             ELSE UIXHandle(url, present, broken)
                    IN  /\ Ran(o)
                        /\ IF o.sent THEN Send(o, Javascript)
                           ELSE Reply(500, Javascript, "unset",
                                      << "Internal server error" >>)
               ELSE /\ NextMiddleware("mime")
                    /\ UNCHANGED << calls, failed >>
       ELSE /\ NextMiddleware("mime")
            /\ UNCHANGED << ctype, calls, failed >>
    /\ UNCHANGED << url, present, broken, passedOn >>
    /\ UNCHANGED exceptServe

\* The middleware that sets the MIME type of .ui and .uix requests.
MimeFix ==
    /\ stage = "mime"
    /\ ctype' = IF HasExt(url, "ui") \/ HasExt(url, "uix") THEN Javascript ELSE ctype
    /\ NextMiddleware("static")
    /\ UNCHANGED << url, present, broken, calls, failed, passedOn >>
    /\ UNCHANGED exceptServe

\* setupStaticFiles: source files are skipped, and public/ holds none of
\* the requested paths.
StaticFiles ==
    /\ stage = "static"
    /\ NextMiddleware("general")
    /\ UNCHANGED << url, present, broken, ctype, calls, failed, passedOn >>
    /\ UNCHANGED exceptServe

\* The general module transformation middleware.
GeneralMiddleware ==
    /\ stage = "general"
    /\ LET source_ == \/ HasExt(url, "ui") \/ HasExt(url, "uix") \/ HasExt(url, "ts")
                      \/ HasExt(url, "js") \/ HasExt(url, "mjs")
           isSourceFile == \/ HasExt(url, "ui") \/ HasExt(url, "uix") \/ HasExt(url, "ts")
                           \/ HasExt(url, "js") /\ ~Includes(url, << "node_modules" >>)
           hdr == IF HasExt(url, "ui") THEN Javascript ELSE ctype
           o == IF HasExt(url, "ui") THEN UIHandle(url, present, broken)
                ELSE IF HasExt(url, "uix") THEN UIXHandle(url, present, broken)
                ELSE IF HasExt(url, "ts") THEN TSHandle(url, present, broken)
                ELSE IF Includes(url, << "node_modules" >>)
                THEN NodeModuleHandle(url, present, broken)
                ELSE IF HasExt(url, "js") THEN JSHandle(url, present, broken)
                ELSE MJSHandle(url, present, broken)
       IN  IF \/ StartsWith(url, << "/", "src" >>)
              \/ StartsWith(url, << "/", "lib", "/" >>) /\ ~isSourceFile
              \/ ~source_
           THEN /\ NextMiddleware("fallback")
                /\ UNCHANGED << ctype, calls, failed >>
           ELSE /\ ctype' = hdr
                /\ Ran(o)
                /\ IF o.sent THEN Send(o, hdr)
                   ELSE Reply(500, hdr, "unset", << "Error: " >> \o o.body)
    /\ UNCHANGED << url, present, broken, passedOn >>
    /\ UNCHANGED exceptServe

\* setupSPAFallback: app.all("*", ...)
SPAFallback ==
    /\ stage = "fallback"
    /\ IF \/ StartsWith(url, << "/", "src", "/" >>)
          \/ StartsWith(url, << "/", "swiss-packages", "/" >>)
          \/ StartsWith(url, << "/", "lib", "/" >>)
          \/ \E e \in {"ui", "uix", "ts", "js", "mjs", "css", "json"} : HasExt(url, e)
       THEN Reply(404, ctype, "text/plain", FileNotFound \o url)
       ELSE Reply(200, ctype, "unset", << "<!DOCTYPE html>" >>)
    /\ UNCHANGED << url, present, broken, ctype, calls, failed, passedOn >>
    /\ UNCHANGED exceptServe

NextServe ==
    \/ \E u \in Urls : Receive(u)
    \/ PackagesMiddleware
    \/ SrcMiddleware
    \/ PreStatic
    \/ MimeFix
    \/ StaticFiles
    \/ GeneralMiddleware
    \/ SPAFallback

\* The files of the directory the requests are made in.
InitFiles ==
    /\ present \in SUBSET FileKinds
    /\ broken \in SUBSET (present \cap Compilable)

InitPipeline ==
    /\ InitCache /\ installed = TRUE
    /\ InitRewriter
    /\ InitHmr /\ hasPages
    /\ InitRequest
    /\ InitFiles
    /\ InitRegistry
    /\ InitResolver
    /\ InitPython
    /\ InitPort

SpecServe == InitPipeline /\ [][NextServe]_vars

(***************************************************************************)
(* Responses of the request pipeline.                                      *)
(***************************************************************************)
SourceKinds == {"ui", "uix", "ts", "js", "mjs"}

\* The request is for a source URL outside node_modules and is answered.
SourceAnswered ==
    /\ stage = "done"
    /\ \E e \in SourceKinds : HasExt(url, e)
    /\ ~StartsWith(url, NodeModules)

\* C14: a request for a source URL whose file exists under no source
\* extension is answered 404, text/plain, "File not found: <url>", on
\* every route.
C14_NotFoundIsPlain404 ==
    (SourceAnswered /\ present \cap (SourceKinds \cup {"JS"}) = {}) =>
        /\ res.status = 404
        /\ res.type = "text/plain"
        /\ res.body = FileNotFound \o url

\* C15: when a compilation fails during a request, the request is answered
\* 500, text/plain, and next() is not called after the failure.
C15_CompileFailureIsPlain500 ==
    (stage = "done" /\ failed) =>
        /\ res.status = 500
        /\ res.type = "text/plain"
        /\ ~passedOn

\* The first of .ts, .ui, .uix under which the file exists, or "none".
FirstSibling ==
    IF "ts" \in present THEN "ts"
    ELSE IF "ui" \in present THEN "ui"
    ELSE IF "uix" \in present THEN "uix"
    ELSE "none"

\* The JS handler served a request X.js whose file is absent.
CrossResolved ==
    /\ stage = "done"
    /\ HasExt(url, "js")
    /\ "js" \notin present
    /\ calls # << >>
    /\ calls[1] = [handler |-> "js", url |-> url]

\* C16: for an absent X.js the owning handler of the first existing sibling
\* in the order .ts, .ui, .uix is invoked under the corrected URL, and no
\* handler of a later sibling is.
C16_FirstSiblingOnly ==
    CrossResolved =>
        SubSeq(calls, 2, Len(calls)) =
            IF FirstSibling = "none" THEN << >>
            ELSE << [handler |-> FirstSibling, url |-> WithExt(url, FirstSibling)] >>

\* The first path segment after /node_modules/.
PackageSegment(u) ==
    LET after == SliceFrom(u, Len(NodeModules))
        firstSlash == IndexFrom(after, << "/" >>, 0)
    IN  IF firstSlash < 0 THEN after ELSE Slice(after, 0, firstSlash)

\* A package name: not empty, and it starts with none of ".", "_", "@".
PackageName(seg) == seg # << >> /\ seg[1] \notin {".", "_", "@"}

\* A request for a script under /node_modules/ found nowhere is answered.
NodeModuleMissing ==
    /\ stage = "done"
    /\ StartsWith(url, NodeModules)
    /\ HasExt(url, "js") \/ HasExt(url, "mjs")
    /\ present \cap (SourceKinds \cup {"JS"}) = {}

\* C17: such a request is redirected (302) to the CDN URL of the package
\* when the first path segment is a package name, and answered 404
\* otherwise.
C17_RedirectOrNotFound ==
    NodeModuleMissing =>
        IF PackageName(PackageSegment(url))
        THEN res.status = 302 /\ res.location = Cdn(PackageSegment(url))
        ELSE res.status = 404

(***************************************************************************)
(* PackageRegistry and resolveWorkspacePackage.  A directory is the        *)
(* sequence of the names on its path.                                      *)
(***************************************************************************)
MaxScanDepth == 15

WorkspaceRoot == << "ws" >>
SwissLibRoot == << "swiss" >>
SwissLibPackagesRoot == << "swiss", "packages" >>

\* fs.readdir(dir): the entries of a directory, in the order it gives them.
Entries(dir) ==
    CASE dir = << "ws" >> -> << "a", "node_modules", "b" >>
      [] dir = << "ws", "node_modules" >> -> << "x" >>
      [] dir = << "ws", "b" >> -> << "c", ".cache" >>
      [] dir = << "swiss" >> -> << "packages" >>
      [] dir = << "swiss", "packages" >> -> << "core", "u" >>
      [] OTHER -> << >>

\* The name in dir/package.json, "none" when there is no such file.
PackageJsonName(dir) ==
    CASE dir = << "ws", "a" >> -> "app"
      [] dir = << "ws", "node_modules", "x" >> -> "util"
      [] dir = << "ws", "b" >> -> "util"
      [] dir = << "ws", "b", "c" >> -> "app"
      [] dir = << "ws", "b", ".cache" >> -> "cached"
      [] dir = << "swiss", "packages", "core" >> -> "@swissjs/core"
      [] dir = << "swiss", "packages", "u" >> -> "util"
      [] OTHER -> "none"

\* The directories scanDirectory does not enter.
Skipped(name) == name \in {"node_modules", "dist", ".git", ".swite", ".cache"}

\* scanDirectory(dir, depth): the directories it reads package.json in, in
\* the order it does.
RECURSIVE scanDirectory(_, _)
RECURSIVE ScanEntries(_, _, _)
ScanEntries(dir, i, depth) ==
    IF i > Len(Entries(dir)) THEN << >>
    ELSE IF Skipped(Entries(dir)[i]) THEN ScanEntries(dir, i + 1, depth)
    ELSE << dir \o << Entries(dir)[i] >> >>
         \o scanDirectory(dir \o << Entries(dir)[i] >>, depth + 1)
         \o ScanEntries(dir, i + 1, depth)

scanDirectory(dir, depth) ==
    IF depth > MaxScanDepth THEN << >> ELSE ScanEntries(dir, 1, depth)

\* for (const root of this.scanRoots) await this.scanDirectory(root)
RECURSIVE ScanOrder(_)
ScanOrder(rts) ==
    IF rts = << >> THEN << >>
    ELSE scanDirectory(Head(rts), 0) \o ScanOrder(Tail(rts))

\* [workspaceRoot, ...additionalRoots.filter(root => root && root !== workspaceRoot)]
FilterRoots(rts) ==
    << Head(rts) >> \o SelectSeq(Tail(rts), LAMBDA r : r # << >> /\ r # Head(rts))

\* if (!this.packages.has(name)) this.packages.set(name, info)
Register(m, dir) ==
    IF PackageJsonName(dir) = "none" \/ PackageJsonName(dir) \in Keys(m) THEN m
    ELSE Append(m, [key |-> PackageJsonName(dir), path |-> dir])

NoPackage == << >>

\* PackageRegistry.findPackage(packageName), the path of the record
findPackage(m, n) ==
    IF n \in Keys(m) THEN (m[CHOOSE i \in 1 .. Len(m) : m[i].key = n]).path
    ELSE NoPackage

\* The packages resolutions look for.
Wanted == {"app", "@swissjs/core", "@swissjs/none"}

\* pkgName.startsWith("@swissjs/")
IsSwiss(n) == n \in {"@swissjs/core", "@swissjs/none"}

\* primaryRoot followed by additionalRoots
RootsFor(n) ==
    IF IsSwiss(n) THEN << SwissLibRoot, SwissLibPackagesRoot, WorkspaceRoot >>
    ELSE << WorkspaceRoot >>

Scanning == {"stat", "scan"}

\* History: resolution q calls scanWorkspace or rescan while a scan of
\* another resolution is in progress.
Track(q, called) ==
    overlap' = (overlap \/ (called /\ \E x \in Procs \ {q} : rpos[x] \in Scanning))

\* fs.stat(workspaceRoot): it succeeds, or the root cannot be accessed.
StatOk == BOOLEAN

\* scanWorkspace(workspaceRoot, additionalRoots), up to its first await
scanWorkspace(q, rts, ret) ==
    IF scanned
    THEN /\ rpos' = [rpos EXCEPT ![q] = ret]
         /\ UNCHANGED << roots, caller >>
    ELSE /\ rpos' = [rpos EXCEPT ![q] = "stat"]
         /\ roots' = [roots EXCEPT ![q] = rts]
         /\ caller' = [caller EXCEPT ![q] = ret]

\* rescan(), up to the first await of its scanWorkspace
rescan(q, ret) ==
    /\ packages' = << >>
    /\ scanned' = FALSE
    /\ scanRoots' = << >>
    /\ IF Len(scanRoots) > 0
       THEN /\ rpos' = [rpos EXCEPT ![q] = "stat"]
            /\ roots' = [roots EXCEPT ![q] = scanRoots]
            /\ caller' = [caller EXCEPT ![q] = ret]
       ELSE /\ rpos' = [rpos EXCEPT ![q] = ret]
            /\ UNCHANGED << roots, caller >>

\* resolveWorkspacePackage(pkgName, context) is called.
ResolveWorkspacePackage(q, n) ==
    /\ rpos[q] = "idle"
    /\ wanted' = [wanted EXCEPT ![q] = n]
    /\ rpos' = [rpos EXCEPT ![q] = "ensure"]
    /\ UNCHANGED << packages, scanned, scanRoots, roots, todo, caller >>
    /\ Track(q, FALSE)
    /\ UNCHANGED << inaccessible, lastRoots >>
    /\ UNCHANGED exceptRegistry

\* "Ensure registry is scanned"
Ensure(q) ==
    /\ rpos[q] = "ensure"
    /\ IF Len(packages) = 0
       THEN /\ scanWorkspace(q, RootsFor(wanted[q]), "lookup")
            /\ UNCHANGED << packages, scanned, scanRoots >>
       ELSE IF IsSwiss(wanted[q]) /\ findPackage(packages, wanted[q]) = NoPackage
       THEN rescan(q, "still")
       ELSE /\ rpos' = [rpos EXCEPT ![q] = "lookup"]
            /\ UNCHANGED << packages, scanned, scanRoots, roots, caller >>
    /\ UNCHANGED << wanted, todo >>
    /\ Track(q, Len(packages) = 0 \/ (IsSwiss(wanted[q]) /\ findPackage(packages, wanted[q]) = NoPackage))
    /\ UNCHANGED << inaccessible, lastRoots >>
    /\ UNCHANGED exceptRegistry

\* scanWorkspace after fs.stat(workspaceRoot): the roots are remembered,
\* or the scan is given up when the root cannot be accessed.
ScanStart(q, ok) ==
    /\ rpos[q] = "stat"
    /\ IF ok
       THEN /\ scanRoots' = FilterRoots(roots[q])
            /\ todo' = [todo EXCEPT ![q] = ScanOrder(FilterRoots(roots[q]))]
            /\ rpos' = [rpos EXCEPT ![q] = "scan"]
       ELSE /\ rpos' = [rpos EXCEPT ![q] = caller[q]]
            /\ UNCHANGED << scanRoots, todo >>
    /\ inaccessible' = (inaccessible \/ ~ok)
    /\ lastRoots' = IF ok THEN FilterRoots(roots[q]) ELSE lastRoots
    /\ UNCHANGED << packages, scanned, wanted, roots, caller >>
    /\ Track(q, FALSE)
    /\ UNCHANGED exceptRegistry

\* scanDirectory reads one package.json.
ScanStep(q) ==
    /\ rpos[q] = "scan"
    /\ todo[q] # << >>
    /\ packages' = Register(packages, Head(todo[q]))
    /\ todo' = [todo EXCEPT ![q] = Tail(todo[q])]
    /\ UNCHANGED << scanned, scanRoots, rpos, wanted, roots, caller >>
    /\ Track(q, FALSE)
    /\ UNCHANGED << inaccessible, lastRoots >>
    /\ UNCHANGED exceptRegistry

\* scanWorkspace has scanned every root: this.scanned = true
ScanDone(q) ==
    /\ rpos[q] = "scan"
    /\ todo[q] = << >>
    /\ scanned' = TRUE
    /\ rpos' = [rpos EXCEPT ![q] = caller[q]]
    /\ UNCHANGED << packages, scanRoots, wanted, roots, todo, caller >>
    /\ Track(q, FALSE)
    /\ UNCHANGED << inaccessible, lastRoots >>
    /\ UNCHANGED exceptRegistry

\* After the forced rescan: "if still not found, explicitly scan
\* swiss-lib/packages"
StillMissing(q) ==
    /\ rpos[q] = "still"
    /\ IF findPackage(packages, wanted[q]) = NoPackage
       THEN scanWorkspace(q, << SwissLibPackagesRoot >>, "lookup")
       ELSE /\ rpos' = [rpos EXCEPT ![q] = "lookup"]
            /\ UNCHANGED << roots, caller >>
    /\ UNCHANGED << packages, scanned, scanRoots, wanted, todo >>
    /\ Track(q, findPackage(packages, wanted[q]) = NoPackage)
    /\ UNCHANGED << inaccessible, lastRoots >>
    /\ UNCHANGED exceptRegistry

\* "Look up package in registry", and the rescan when it is not there
Lookup(q) ==
    /\ rpos[q] = "lookup"
    /\ IF findPackage(packages, wanted[q]) # NoPackage
       THEN /\ rpos' = [rpos EXCEPT ![q] = "idle"]
            /\ UNCHANGED << packages, scanned, scanRoots, roots, caller >>
       ELSE rescan(q, "final")
    /\ UNCHANGED << wanted, todo >>
    /\ Track(q, findPackage(packages, wanted[q]) = NoPackage)
    /\ UNCHANGED << inaccessible, lastRoots >>
    /\ UNCHANGED exceptRegistry

\* The lookup after the rescan: the path, or null
Return(q) ==
    /\ rpos[q] = "final"
    /\ rpos' = [rpos EXCEPT ![q] = "idle"]
    /\ UNCHANGED << packages, scanned, scanRoots, wanted, roots, todo, caller >>
    /\ Track(q, FALSE)
    /\ UNCHANGED << inaccessible, lastRoots >>
    /\ UNCHANGED exceptRegistry

NextRegistry ==
    \/ \E q \in Procs : \E n \in Wanted : ResolveWorkspacePackage(q, n)
    \/ \E q \in Procs : Ensure(q)
    \/ \E q \in Procs : \E ok \in StatOk : ScanStart(q, ok)
    \/ \E q \in Procs : ScanStep(q)
    \/ \E q \in Procs : ScanDone(q)
    \/ \E q \in Procs : StillMissing(q)
    \/ \E q \in Procs : Lookup(q)
    \/ \E q \in Procs : Return(q)

InitResolutions ==
    /\ InitCache /\ installed = TRUE
    /\ InitRewriter
    /\ InitHmr /\ hasPages
    /\ InitServe
    /\ InitRegistry
    /\ InitResolver
    /\ InitPython
    /\ InitPort

SpecRegistry == InitResolutions /\ [][NextRegistry]_vars

(***************************************************************************)
(* The package index.                                                      *)
(***************************************************************************)
\* The index a scan of the roots rts builds from an empty one.
RECURSIVE RegisterAll(_, _)
RegisterAll(m, dirs) ==
    IF dirs = << >> THEN m ELSE RegisterAll(Register(m, Head(dirs)), Tail(dirs))

\* The first directory with package n in a sequence of directories.
FirstWith(n, dirs) ==
    dirs[CHOOSE i \in 1 .. Len(dirs) :
            /\ PackageJsonName(dirs[i]) = n
            /\ \A j \in 1 .. i - 1 : PackageJsonName(dirs[j]) # n]

\* The directories of a sequence that hold package n.
DirsWith(n, dirs) == {i \in 1 .. Len(dirs) : PackageJsonName(dirs[i]) = n}

\* C18: the index never holds two records for one name, and after a scan
\* has completed, find(n) of a name found in more than one directory is the
\* directory discovered first in the traversal of the scanned roots.
C18_FirstDiscoveredWins ==
    /\ \A i, j \in 1 .. Len(packages) : packages[i].key = packages[j].key => i = j
    /\ scanned =>
           \A n \in {"app", "util", "@swissjs/core"} :
               Cardinality(DirsWith(n, ScanOrder(scanRoots))) > 1 =>
                   findPackage(packages, n) = FirstWith(n, ScanOrder(scanRoots))

\* Resolution q returns from a rescan with this step.
RescanReturns(q) ==
    /\ rpos[q] \in {"ensure", "lookup", "stat", "scan"}
    /\ rpos'[q] \in {"still", "final"}

\* C19: when a rescan returns after some scan has used roots, the roots the
\* last scan used are remembered and the index is the one a scan of them
\* builds from an empty index.
C19_RescanReplaysRoots ==
    [][\A q \in Procs :
          (RescanReturns(q) /\ lastRoots # << >>) =>
              /\ scanRoots' = lastRoots'
              /\ scanned'
              /\ packages' = RegisterAll(<< >>, ScanOrder(lastRoots'))]_vars

\* When no scan or rescan was called during another, the first directory
\* discovered wins; when also every root could be accessed, a rescan replays
\* the remembered roots.
SerialFirstDiscoveredWins == ~overlap => C18_FirstDiscoveredWins

SerialRescanReplaysRoots ==
    [][\A q \in Procs :
          (RescanReturns(q) /\ lastRoots # << >> /\ ~overlap' /\ ~inaccessible') =>
              /\ scanRoots' = lastRoots'
              /\ scanned'
              /\ packages' = RegisterAll(<< >>, ScanOrder(lastRoots'))]_vars

\* A rescan of roots that could all be accessed, with no other scan called
\* meanwhile, has returned.
RescanReplayed ==
    /\ ~overlap /\ ~inaccessible
    /\ \E q \in Procs : rpos[q] \in {"still", "final"} /\ caller[q] = rpos[q]
    /\ scanned /\ Len(packages) > 0

\* C20: at most one scan or rescan is in progress at any time.
C20_ScansSerialized == Cardinality({q \in Procs : rpos[q] \in Scanning}) <= 1

(***************************************************************************)
(* File paths and URLs.  A path is the sequence of its lexemes, "/"        *)
(* standing for the separator of the platform; an absolute path of win32   *)
(* begins with the drive.  No path of the model is a symbolic link, so     *)
(* fs.realpath returns its argument.                                       *)
(***************************************************************************)
Platforms == {"posix", "win32"}
Drive(pf) == IF pf = "win32" THEN << "C:" >> ELSE << >>

\* context.workspaceRoot, context.root and the framework monorepo
WsRoot(pf) == Drive(pf) \o << "/", "ws" >>
Root(pf) == WsRoot(pf) \o << "/", "app" >>
SwissLibDir(pf) == WsRoot(pf) \o << "/", "swiss-lib" >>

\* The position (from 1) of the last lexeme lex of t, 0 when there is none.
LastIndex(t, lex) ==
    LET S == {i \in 1 .. Len(t) : t[i] = lex}
    IN  IF S = {} THEN 0 ELSE CHOOSE i \in S : \A j \in S : j <= i

\* path.dirname(t) of an absolute path
Dirname(pf, t) ==
    LET i == LastIndex(t, "/")
    IN  IF i <= Len(Drive(pf)) + 1 THEN Drive(pf) \o << "/" >> ELSE SubSeq(t, 1, i - 1)

\* path.join(a, b) for b without "." and ".." segments
Join(a, b) ==
    LET rest == IF StartsWith(b, << "/" >>) THEN Tail(b) ELSE b
    IN  IF EndsWith(a, << "/" >>) THEN a \o rest ELSE a \o << "/" >> \o rest

\* path.isAbsolute(t)
IsAbsolute(pf, t) ==
    \/ StartsWith(t, << "/" >>)
    \/ pf = "win32" /\ StartsWith(t, << "C:", "/" >>)

\* The steps from the root of the file system down to t.
RECURSIVE Ancestors(_, _)
Ancestors(pf, t) ==
    IF Dirname(pf, t) = t THEN << t >> ELSE << t >> \o Ancestors(pf, Dirname(pf, t))

\* path.relative(from, to) of absolute paths on one drive
PathRelative(pf, from, to) ==
    LET up == Ancestors(pf, from)
        k == CHOOSE i \in 1 .. Len(up) :
                 /\ to = up[i] \/ StartsWith(to, Join(up[i], << >>))
                 /\ \A j \in 1 .. i - 1 : ~(to = up[j] \/ StartsWith(to, Join(up[j], << >>)))
        down == SliceFrom(to, Len(Join(up[k], << >>)))
        RECURSIVE Ups(_)
        Ups(n) == IF n = 0 THEN << >> ELSE << ".", ".", "/" >> \o Ups(n - 1)
    IN  Ups(k - 1) \o down

\* context.fileExists(t), fs.access(t)
FileExists(t, dk) == t \in dk \/ \E f \in dk : StartsWith(f, Join(t, << >>))

\* findSwissLibMonorepo(startPath): the first directory, going up from
\* startPath, that holds swiss-lib/package.json or
\* swiss-lib/packages/core/package.json; NoDir when there is none.
NoDir == << >>
PackageJson == << "package", ".", "json" >>
findSwissLibMonorepo(pf, startPath, dk) ==
    LET up == Ancestors(pf, startPath)
        found(d) ==
            \/ FileExists(Join(Join(d, << "swiss-lib" >>), PackageJson), dk)
            \/ FileExists(Join(Join(d, << "swiss-lib", "/", "packages", "/", "core" >>),
                               PackageJson), dk)
        S == {i \in 1 .. Len(up) : found(up[i])}
    IN  IF S = {} THEN NoDir
        ELSE Join(up[CHOOSE i \in S : \A j \in S : i <= j], << "swiss-lib" >>)

\* t.replace("/dist/", "/src/").replace(/\.js$/, ".ts")
SrcOverDist(t) ==
    LET u == ReplaceFirst(t, DistDir, SrcDir)
    IN  IF EndsWith(u, << ".", "js" >>) THEN Slice(u, 0, Len(u) - 1) \o << "ts" >> ELSE u

(***************************************************************************)
(* resolveFilePath(url, root, workspaceRoot) and toUrl(filePath, context), *)
(* with root = Root(pf) and workspaceRoot = WsRoot(pf), on the disk dk.    *)
(***************************************************************************)
WorkspaceFile == << "pnpm-workspace", ".", "yaml" >>

\* The first directory, going up from root, that holds pnpm-workspace.yaml
\* and lib/; NoDir when there is none.
SwsRoot(pf, dk) ==
    LET up == Ancestors(pf, Root(pf))
        S == {i \in 1 .. Len(up) :
                 /\ FileExists(Join(up[i], WorkspaceFile), dk)
                 /\ FileExists(Join(up[i], << "lib" >>), dk)}
    IN  IF S = {} THEN NoDir ELSE up[CHOOSE i \in S : \A j \in S : i <= j]

resolveFilePath(pf, u, dk) ==
    LET root == Root(pf)
        wsRoot == WsRoot(pf)
        urlPath == IF StartsWith(u, << "/" >>) THEN Tail(u) ELSE u
    IN  IF StartsWith(u, NodeModules)
        THEN IF FileExists(Join(root, urlPath), dk) THEN Join(root, urlPath)
             ELSE IF FileExists(Join(wsRoot, urlPath), dk) THEN Join(wsRoot, urlPath)
             ELSE Join(root, urlPath)
        ELSE IF StartsWith(u, SwissPackages)
        THEN LET swissLib == findSwissLibMonorepo(pf, root, dk)
                 relativePath == SliceFrom(u, Len(SwissPackages))
             IN  IF swissLib # NoDir
                 THEN Join(Join(swissLib, << "packages" >>), relativePath)
                 ELSE Join(Join(Dirname(pf, Dirname(pf, Dirname(pf, root))),
                                << "swiss-lib", "/", "packages" >>), relativePath)
        ELSE IF \/ StartsWith(u, LibDir)
                \/ StartsWith(u, << "/", "libraries", "/" >>)
                \/ StartsWith(u, PackagesDir)
                \/ StartsWith(u, << "/", "modules", "/" >>)
        THEN IF StartsWith(u, LibDir) /\ SwsRoot(pf, dk) # NoDir
             THEN Join(SwsRoot(pf, dk), urlPath)
             ELSE LET resolved == Join(wsRoot, urlPath)
                      srcResolved == Join(wsRoot, SrcOverDist(urlPath))
                  IN  IF /\ StartsWith(u, PackagesDir) \/ StartsWith(u, LibDir)
                         /\ Includes(u, DistDir)
                         /\ ~FileExists(resolved, dk)
                         /\ FileExists(srcResolved, dk)
                      THEN srcResolved
                      ELSE resolved
        ELSE LET appRelativeToWorkspace == PathRelative(pf, wsRoot, root)
             IN  IF StartsWith(u, << "/" >> \o appRelativeToWorkspace \o << "/" >>)
                 THEN Join(wsRoot, u)
                 ELSE IF \/ StartsWith(u, SrcDir)
                         \/ StartsWith(u, << "/", "public", "/" >>)
                         \/ StartsWith(u, << "/", "assets", "/" >>)
                 THEN Join(root, u)
                 ELSE IF StartsWith(u, << "/" >>)
                 THEN IF FileExists(Join(wsRoot, u), dk) THEN Join(wsRoot, u)
                      ELSE Join(root, u)
                 ELSE Join(root, u)

\* normalizeResult(result)
normalizeResult(result) ==
    IF Includes(result, SwissLib)
    THEN ReplaceAll(ReplaceAll(result, SwissLibPackages, SwissPackages),
                    SwissLib, SwissPackages)
    ELSE result

\* relative.startsWith("/") ? relative : "/" + relative
Rooted(relative) ==
    IF StartsWith(relative, << "/" >>) THEN relative ELSE << "/" >> \o relative

\* toUrl: the branch "already a URL (starts with / or http)"
UrlToUrl(pf, normalized, dk) ==
    LET workingPath == IF Includes(normalized, SwissLibPackages)
                       THEN ReplaceAll(normalized, SwissLibPackages, SwissPackages)
                       ELSE normalized
        srcPath == SrcOverDist(workingPath)
    IN  IF /\ Includes(workingPath, DistDir)
           /\ ~Includes(workingPath, SrcDir)
           /\ FileExists(resolveFilePath(pf, srcPath, dk), dk)
        THEN normalizeResult(srcPath)
        ELSE normalizeResult(workingPath)

\* toUrl: the branch of an absolute path that is not taken for a URL
PathToUrl(pf, fsPath, dk) ==
    LET root == Root(pf)
        workspaceRoot == WsRoot(pf)
        swissLib == findSwissLibMonorepo(pf, root, dk)
        swissPackagesPath == Join(swissLib, << "packages" >>)
        lower == LowerCase(fsPath)
        underSwiss == swissLib # NoDir /\ StartsWith(lower, LowerCase(swissPackagesPath))
        swissUrl == << "/", "swiss-packages" >>
                    \o Rooted(SliceFrom(fsPath, Len(swissPackagesPath)))
        srcUrl == SrcOverDist(swissUrl)
        nodeModulesIndex == IndexFrom(lower, NodeModules, 0)
        wsUrl == Rooted(SliceFrom(fsPath, Len(workspaceRoot)))
        twin == SrcOverDist(fsPath)
        wsSrcUrl == IF /\ Includes(wsUrl, PackagesDir)
                       /\ Includes(wsUrl, DistDir)
                       /\ ~FileExists(fsPath, dk)
                       /\ FileExists(twin, dk)
                    THEN << "/" >> \o PathRelative(pf, workspaceRoot, twin)
                    ELSE wsUrl
    IN  IF underSwiss
        THEN IF /\ Includes(swissUrl, DistDir)
                /\ ~Includes(swissUrl, SrcDir)
                /\ FileExists(Join(swissPackagesPath,
                                   ReplaceFirst(srcUrl, SwissPackages, << >>)), dk)
             THEN normalizeResult(srcUrl)
             ELSE normalizeResult(swissUrl)
        ELSE IF nodeModulesIndex >= 0
        THEN normalizeResult(NodeModules
                             \o SliceFrom(fsPath, nodeModulesIndex + Len(NodeModules)))
        ELSE IF StartsWith(lower, LowerCase(root))
        THEN normalizeResult(Rooted(SliceFrom(fsPath, Len(root))))
        ELSE IF StartsWith(lower, LowerCase(workspaceRoot))
        THEN IF Includes(lower, SwissLibPackages)
             THEN normalizeResult(
                      SwissPackages
                      \o SliceFrom(fsPath,
                                   IndexFrom(lower, SwissLibPackages, 0) + Len(SwissLibPackages)))
             ELSE IF Includes(LowerCase(wsSrcUrl), SwissLib)
             THEN normalizeResult(
                      ReplaceAll(ReplaceAll(wsSrcUrl, SwissLibPackages, SwissPackages),
                                 SwissLib, SwissPackages))
             ELSE normalizeResult(wsSrcUrl)
        ELSE normalizeResult(<< "/" >> \o PathRelative(pf, workspaceRoot, fsPath))

\* toUrl(filePath, context); a path that is not absolute is relative to the
\* directory the server runs in, the application root
toUrl(pf, fsPath, dk) ==
    IF StartsWith(fsPath, << "/" >>) \/ StartsWith(fsPath, << "http" >>)
    THEN UrlToUrl(pf, fsPath, dk)
    ELSE IF IsAbsolute(pf, fsPath)
    THEN PathToUrl(pf, fsPath, dk)
    ELSE normalizeResult(<< "/" >> \o fsPath)

(***************************************************************************)
(* ModuleResolver.resolve(specifier, importer) for a relative specifier.   *)
(***************************************************************************)
\* const extensions = [".ui", ".uix", ".ts", ".tsx", ".js", ".jsx", ".mjs"]
ResolveExtensions == << "ui", "uix", "ts", "tsx", "js", "jsx", "mjs" >>

\* path.resolve(dir, specifier) for a specifier that begins with "./" or "../"
RECURSIVE PathResolve(_, _, _)
PathResolve(pf, dir, specifier) ==
    IF StartsWith(specifier, << ".", "/" >>)
    THEN PathResolve(pf, dir, SliceFrom(specifier, 2))
    ELSE IF StartsWith(specifier, << ".", ".", "/" >>)
    THEN PathResolve(pf, Dirname(pf, dir), SliceFrom(specifier, 3))
    ELSE Join(dir, specifier)

\* /\.(<exts>)$/.test(t)
HasExtensionOf(t, exts) ==
    Len(t) >= 2 /\ t[Len(t) - 1] = "." /\ t[Len(t)] \in exts

\* The first of the paths of `candidates` that exists, `otherwise` if none.
FirstExisting(candidates, otherwise, dk) ==
    CHOOSE r \in
        { IF \E i \in DOMAIN c : FileExists(c[i], dk)
          THEN c[CHOOSE i \in DOMAIN c :
                     /\ FileExists(c[i], dk)
                     /\ \A j \in 1 .. (i - 1) : ~FileExists(c[j], dk)]
          ELSE otherwise : c \in {candidates} } : TRUE

\* The directory resolve takes for that of the importer.
ImporterDir(pf, imp, dk) ==
    LET root == Root(pf)
        workspacePath == Join(WsRoot(pf), imp)
        importerPath ==
            IF ~StartsWith(imp, << "/" >>) THEN imp
            ELSE IF \/ StartsWith(imp, SrcDir)
                    \/ StartsWith(imp, << "/", "public", "/" >>)
                    \/ StartsWith(imp, << "/", "assets", "/" >>)
            THEN Join(root, imp)
            ELSE IF FileExists(workspacePath, dk) THEN workspacePath
            ELSE Join(root, imp)
    IN  Dirname(pf, importerPath)

resolveRelative(pf, specifier, imp, dk) ==
    LET importerDir == ImporterDir(pf, imp, dk)
        hasExtension ==
            HasExtensionOf(specifier, {"ui", "uix", "ts", "tsx", "js", "jsx", "mjs"})
        specifierWithoutExt ==
            IF HasExtensionOf(specifier, {"js", "ts", "jsx", "tsx", "mjs"})
            THEN Slice(specifier, 0, Len(specifier) - 2)
            ELSE specifier
        resolved == PathResolve(pf, importerDir, specifierWithoutExt)
        withExt == [i \in 1 .. Len(ResolveExtensions) |->
                       resolved \o << ".", ResolveExtensions[i] >>]
        indexFile == [i \in 1 .. Len(ResolveExtensions) |->
                         Join(resolved, << "index", ".", ResolveExtensions[i] >>)]
    IN  IF hasExtension /\ FileExists(PathResolve(pf, importerDir, specifier), dk)
        THEN toUrl(pf, PathResolve(pf, importerDir, specifier), dk)
        ELSE toUrl(pf, FirstExisting(withExt \o indexFile, resolved, dk), dk)

(***************************************************************************)
(* resolveBareImport(specifier, context).  The manifest of the package is  *)
(* one of Manifests; context.resolveWorkspacePackage answers as            *)
(* WorkspaceAnswers says.  A result is the URL returned, or `threw`.       *)
(***************************************************************************)
\* package.json: what reading and parsing it gives.
\*   "unreadable"     fs.readFile rejects
\*   "malformed"      JSON.parse throws
\*   "main"           { "main": "index.js" }
\*   "exportsString"  { "exports": { ".": "./dist/index.js" } }
\*   "exportsImport"  { "exports": { ".": { "import": "./dist/index.js" } } }
\*   "exportsOther"   { "exports": { ".": { "types": "./index.d.ts" } } }
Manifests ==
    {"unreadable", "malformed", "main", "exportsString", "exportsImport", "exportsOther"}

\* context.resolveWorkspacePackage(pkgName): null, the directory of the
\* workspace package, or a rejected promise.
WorkspaceAnswers == {"null", "found", "rejects"}
WorkspacePackageDir(pf) == WsRoot(pf) \o << "/", "packages", "/", "p" >>

Returned(u) == [url |-> u, file |-> << >>, threw |-> FALSE]
Rejected == [url |-> << >>, file |-> << >>, threw |-> TRUE]

\* specifier.split("/"): the package name and the path below it
PkgNameOf(specifier) ==
    LET first == IndexFrom(specifier, << "/" >>, 0)
        second == IF first < 0 THEN 0 - 1 ELSE IndexFrom(specifier, << "/" >>, first + 1)
        cut == IF StartsWith(specifier, << "@" >>) THEN second ELSE first
    IN  IF cut < 0 THEN specifier ELSE Slice(specifier, 0, cut)
SubPathOf(specifier) == SliceFrom(specifier, Len(PkgNameOf(specifier)) + 1)

\* t.replace(/\.(<exts>)$/, "." + e)
WithExtension(t, exts, e) ==
    IF HasExtensionOf(t, exts) THEN Slice(t, 0, Len(t) - 1) \o << e >> ELSE t

\* exports["."] of the manifest has an entry
HasExportEntry(manifest, subPath) ==
    manifest \in {"exportsString", "exportsImport", "exportsOther"} /\ subPath = << >>
DistIndexJs == << ".", "/", "dist", "/", "index", ".", "js" >>
IndexJs == << "index", ".", "js" >>

\* The first existing path of `candidates`, picked for `return toUrl(f,
\* context)`, else `rest`
Picked(f) == [url |-> << >>, file |-> f, threw |-> FALSE]
FirstOf(candidates, rest, dk) ==
    CHOOSE r \in
        { IF f # << >> THEN Picked(f) ELSE rest :
          f \in {FirstExisting(candidates, << >>, dk)} } : TRUE

\* return toUrl(f, context) for the path f a branch has picked
UrlOfPicked(pf, tried, dk) ==
    CHOOSE r \in
        { IF t.threw \/ t.file = << >> THEN t ELSE Returned(toUrl(pf, t.file, dk)) :
          t \in {tried} } : TRUE

\* resolveWorkspacePackageEntry(workspacePkg, pkgName, subPath, specifier, context)
resolveWorkspacePackageEntry(pf, workspacePkg, subPath, specifier, manifest, dk) ==
    LET entryPoint == IF subPath # << >> THEN subPath ELSE IndexJs
        fullPath == Join(workspacePkg, entryPoint)
        exported == Join(workspacePkg, SliceFrom(DistIndexJs, 2))
        exts == << "js", "mjs", "ts", "ui", "uix" >>
        fallback ==
            FirstOf(
                (IF Includes(fullPath, DistDir) THEN << SrcOverDist(fullPath) >> ELSE << >>)
                \o << fullPath >>
                \o (IF HasExtensionOf(entryPoint, {"js", "mjs", "ts", "ui", "uix", "json"})
                    THEN [i \in 1 .. 5 |-> Slice(fullPath, 0, Len(fullPath) - 1) \o << exts[i] >>]
                    ELSE [i \in 1 .. 5 |-> fullPath \o << ".", exts[i] >>])
                \o [i \in 1 .. 4 |->
                       Join(fullPath, << "index", ".", << "js", "ts", "ui", "uix" >>[i] >>)]
                \o [i \in 1 .. 4 |->
                       Join(workspacePkg,
                            << "src", "/", "index", ".", << "ts", "ui", "uix", "js" >>[i] >>)],
                Returned(Cdn(specifier)), dk)
    IN  IF manifest \in {"unreadable", "malformed"} THEN Rejected
        ELSE IF ~HasExportEntry(manifest, subPath) THEN fallback
        ELSE IF manifest = "exportsOther" THEN Rejected
        ELSE FirstOf(
                 << SrcOverDist(exported), exported >>
                 \o [i \in 1 .. 4 |->
                        WithExtension(exported, {"js", "ts", "ui", "uix"},
                                      << "ui", "uix", "ts", "js" >>[i])],
                 fallback, dk)

\* The path or CDN URL the try block of resolveBareImport settles on.
BareImportPick(pf, specifier, manifest, answer, dk) ==
    LET pkgName == PkgNameOf(specifier)
        subPath == SubPathOf(specifier)
        swissLib == findSwissLibMonorepo(pf, Root(pf), dk)
        nodeModulesLocations ==
            << Join(Root(pf), << "node_modules" >>), Join(WsRoot(pf), << "node_modules" >>) >>
            \o (IF swissLib # NoDir /\ FileExists(Join(swissLib, << "node_modules" >>), dk)
                THEN << Join(swissLib, << "node_modules" >>) >> ELSE << >>)
        pkgJsonPath ==
            FirstExisting([i \in 1 .. Len(nodeModulesLocations) |->
                              Join(Join(nodeModulesLocations[i], pkgName), PackageJson)],
                          << >>, dk)
        pkgDir == Dirname(pf, pkgJsonPath)
        workspaceEntry ==
            resolveWorkspacePackageEntry(pf, WorkspacePackageDir(pf), subPath, specifier,
                                         manifest, dk)
        entryPoint == IF subPath # << >> THEN subPath ELSE IndexJs
        fullPath == Join(pkgDir, entryPoint)
        exported == PathResolve(pf, pkgDir, DistIndexJs)
        exts == << "js", "mjs", "ts", "ui", "uix" >>
        byEntryPoint ==
            FirstOf( << fullPath >> \o [i \in 1 .. 5 |-> fullPath \o << ".", exts[i] >>],
                       Returned(Cdn(specifier)), dk)
    IN  IF pkgJsonPath = << >>
        THEN CASE answer = "rejects" -> Rejected
               [] answer = "found" -> workspaceEntry
               [] OTHER -> Returned(Cdn(specifier))
        ELSE IF manifest \in {"unreadable", "malformed"} THEN Rejected
        ELSE IF answer = "rejects" THEN Rejected
        ELSE IF answer = "found" /\ Includes(LowerCase(pkgDir), LowerCase(WorkspacePackageDir(pf)))
        THEN workspaceEntry
        ELSE IF ~HasExportEntry(manifest, subPath) THEN byEntryPoint
        ELSE IF manifest = "exportsOther" THEN Rejected
        ELSE FirstOf(
                 << SrcOverDist(exported), exported >>
                 \o [i \in 1 .. 5 |->
                        WithExtension(exported, {"js", "mjs", "ts", "ui", "uix"}, exts[i])],
                 byEntryPoint, dk)

\* The body of the try block of resolveBareImport.
BareImportBody(pf, specifier, manifest, answer, dk) ==
    UrlOfPicked(pf, BareImportPick(pf, specifier, manifest, answer, dk), dk)

\* The try block without its catch clause.
Uncaught(specifier, tried) == tried

\* try { ... } catch (error) { return `https://cdn.jsdelivr.net/npm/${specifier}/+esm` }
CatchAll(specifier, tried) ==
    IF tried.threw THEN Returned(Cdn(specifier)) ELSE tried

resolveBareImport(pf, specifier, manifest, answer, dk) ==
    CatchAll(specifier, BareImportBody(pf, specifier, manifest, answer, dk))

(***************************************************************************)
(* The resolver on a disk: one call of toUrl followed by resolveFilePath,  *)
(* of resolve with a relative specifier, or of resolveBareImport.  The     *)
(* calls change nothing a later call reads, so a behaviour makes one.      *)
(***************************************************************************)
\* The files every disk holds: the workspace file and the importers.
BaseFiles(pf) ==
    { WsRoot(pf) \o << "/" >> \o WorkspaceFile,
      Root(pf) \o << "/", "src", "/", "index", ".", "ui" >>,
      Root(pf) \o << "/", "modules", "/", "cart", "/", "index", ".", "ui" >> }

\* The files a disk may hold besides.
SourceFiles(pf) ==
    { Root(pf) \o << "/", "src", "/", "x", ".", "ui" >>,
      Root(pf) \o << "/", "src", "/", "x", ".", "ts" >>,
      Root(pf) \o << "/", "src", "/", "x", "/", "index", ".", "ts" >>,
      Root(pf) \o << "/", "modules", "/", "cart", "/", "x", ".", "ts" >>,
      WsRoot(pf) \o << "/", "src", "/", "y", ".", "ts" >>,
      WorkspacePackageDir(pf) \o << "/", "dist", "/", "index", ".", "js" >>,
      WorkspacePackageDir(pf) \o << "/", "src", "/", "index", ".", "ts" >>,
      SwissLibDir(pf) \o << "/", "packages", "/", "core", "/", "src", "/", "x", ".", "ts" >> }
ReactDir(pf) == Root(pf) \o << "/", "node_modules", "/", "react" >>
PackageFiles(pf) ==
    { ReactDir(pf) \o << "/" >> \o PackageJson,
      ReactDir(pf) \o << "/", "dist", "/", "index", ".", "js" >>,
      ReactDir(pf) \o << "/" >> \o IndexJs }

\* The disks: any of the source files and no installed package, or any of
\* the files of the installed package and of the workspace package.  The
\* framework monorepo, when the disk holds a file of it, has its manifest.
Disks(pf) ==
    { BaseFiles(pf) \cup a
      \cup (IF \E f \in a : StartsWith(f, SwissLibDir(pf))
            THEN {SwissLibDir(pf) \o << "/" >> \o PackageJson} ELSE {}) :
      a \in SUBSET SourceFiles(pf) }
    \cup { BaseFiles(pf) \cup a \cup b :
           a \in SUBSET {f \in SourceFiles(pf) : StartsWith(f, WorkspacePackageDir(pf))},
           b \in SUBSET PackageFiles(pf) }

\* An importer as resolve is given it, with the file it names: the URL of
\* a file of the application, or its path.
ImportersOf(pf) ==
    { [given |-> << "/", "src", "/", "index", ".", "ui" >>,
       file |-> Root(pf) \o << "/", "src", "/", "index", ".", "ui" >>],
      [given |-> Root(pf) \o << "/", "src", "/", "index", ".", "ui" >>,
       file |-> Root(pf) \o << "/", "src", "/", "index", ".", "ui" >>],
      [given |-> << "/", "modules", "/", "cart", "/", "index", ".", "ui" >>,
       file |-> Root(pf) \o << "/", "modules", "/", "cart", "/", "index", ".", "ui" >>] }

RelativeSpecifiers ==
    { << ".", "/", "x" >>, << ".", "/", "x", ".", "ts" >>, << ".", "/", "x", ".", "js" >> }
BareSpecifiers ==
    { << "react" >>, << "react", "/", "index" >>, << "p" >>, ScopedPkg }

InitDisk ==
    /\ platform \in Platforms
    /\ disk \in Disks(platform)
    /\ lastCall = "none"
    /\ callArg = NoArg
    /\ callRet = NoRet

\* resolveFilePath(await toUrl(p, context), root, workspaceRoot) for a file p
RoundTrip(p) ==
    /\ lastCall = "none"
    /\ p \in disk
    /\ lastCall' = "roundTrip"
    /\ callArg' = [NoArg EXCEPT !.path = p]
    /\ callRet' = [url |-> toUrl(platform, p, disk),
                   file |-> resolveFilePath(platform, toUrl(platform, p, disk), disk),
                   threw |-> FALSE]
    /\ UNCHANGED << platform, disk >>
    /\ UNCHANGED exceptResolver

\* resolver.resolve(specifier, importer) for a relative specifier
ResolveRelative(specifier, imp) ==
    /\ lastCall = "none"
    /\ lastCall' = "resolve"
    /\ callArg' = [NoArg EXCEPT !.specifier = specifier, !.importer = imp.given,
                                !.path = imp.file]
    /\ callRet' = Returned(resolveRelative(platform, specifier, imp.given, disk))
    /\ UNCHANGED << platform, disk >>
    /\ UNCHANGED exceptResolver

\* resolveBareImport(specifier, context)
ResolveBare(specifier, manifest, answer) ==
    /\ lastCall = "none"
    /\ lastCall' = "bare"
    /\ callArg' = [NoArg EXCEPT !.specifier = specifier, !.manifest = manifest,
                                !.answer = answer]
    /\ callRet' = resolveBareImport(platform, specifier, manifest, answer, disk)
    /\ UNCHANGED << platform, disk >>
    /\ UNCHANGED exceptResolver

NextResolve ==
    \/ \E p \in disk : RoundTrip(p)
    \/ \E specifier \in RelativeSpecifiers, imp \in ImportersOf(platform) :
           ResolveRelative(specifier, imp)
    \/ \E specifier \in BareSpecifiers, manifest \in Manifests, answer \in WorkspaceAnswers :
           ResolveBare(specifier, manifest, answer)

InitResolve ==
    /\ InitCache /\ installed = TRUE
    /\ InitRewriter
    /\ InitHmr /\ hasPages
    /\ InitServe
    /\ InitRegistry
    /\ InitDisk
    /\ InitPython
    /\ InitPort

SpecResolve == InitResolve /\ [][NextResolve]_vars

(***************************************************************************)
(* Properties of the resolver.                                             *)
(***************************************************************************)
\* What the try block of the last resolveBareImport came to.
BodyOutcome ==
    BareImportBody(platform, callArg.specifier, callArg.manifest, callArg.answer, disk)

ClaimedCandidates(dir) ==
    [i \in 1 .. 7 |-> dir \o << "/", "x", ".", ResolveExtensions[i] >>]
    \o [i \in 1 .. 7 |-> dir \o << "/", "x", "/", "index", ".", ResolveExtensions[i] >>]

\* C22: for a relative specifier without extension, resolve returns the URL
\* of the first existing candidate in the order .ui, .uix, .ts, .tsx, .js,
\* .jsx, .mjs, then index.<ext> in that order, joined against the directory
\* of the importer, and the URL of the joined path when none exists.
C22_FirstExistingCandidate ==
    (lastCall = "resolve" /\ callArg.specifier = << ".", "/", "x" >>) =>
        LET dir == Dirname(platform, callArg.path)
        IN  callRet.url =
                toUrl(platform,
                      FirstExisting(ClaimedCandidates(dir), dir \o << "/", "x" >>, disk),
                      disk)

\* C23: for every existing file p, resolveFilePath(toUrl(p)) is p, or the
\* source twin of p when p is a built file whose source twin exists.
C23_RoundTrip ==
    lastCall = "roundTrip" =>
        \/ callRet.file = callArg.path
        \/ /\ Includes(callArg.path, DistDir)
           /\ SrcOverDist(callArg.path) \in disk
           /\ callRet.file = SrcOverDist(callArg.path)

(***************************************************************************)
(* proxyToPython(options).  A response has a status and a body: JSON, text *)
(* that is not JSON, or none; its body can be read once.                   *)
(***************************************************************************)
Methods == {"GET", "POST", "PUT", "PATCH", "DELETE"}
Statuses == {200, 201, 204, 400, 401, 404, 422, 500, 503}
Bodies == {"json", "text", "none"}

\* response.ok
Ok(r) == r.status >= 200 /\ r.status <= 299

\* The response once its body has been read: a body that is null is never
\* disturbed.
Consumed(r) == [r EXCEPT !.bodyUsed = (r.body # "none")]

\* response.json(): "value", or the error the promise is rejected with
ResponseJson(r) ==
    IF r.bodyUsed THEN "TypeError"
    ELSE IF r.body = "json" THEN "value"
    ELSE "SyntaxError"

\* response.text(): "value", or the error the promise is rejected with
ResponseText(r) == IF r.bodyUsed THEN "TypeError" ELSE "value"

\* try { responseBody = await response.json() }
\* catch { responseBody = await response.text() }
ReadErrorBody(r) ==
    IF ResponseJson(r) = "value" THEN "value" ELSE ResponseText(Consumed(r))

\* What proxyToPython comes to once fetch has resolved with r.
Proxied(r, method) ==
    IF ~Ok(r)
    THEN IF ReadErrorBody(r) = "value"
         THEN [kind |-> "SwiteProxyError", status |-> r.status, method |-> method]
         ELSE [kind |-> ReadErrorBody(r), status |-> 0, method |-> method]
    ELSE IF ResponseJson(r) = "value"
    THEN [kind |-> "returned", status |-> r.status, method |-> method]
    ELSE [kind |-> ResponseJson(r), status |-> 0, method |-> method]

\* initPythonProxy(config)
InitPythonProxy ==
    /\ ~pythonConfig
    /\ pythonConfig' = TRUE
    /\ UNCHANGED << envUrl, response, outcome, clock, deadline, attempt, spos,
                    child, childRef, healthy >>
    /\ UNCHANGED exceptPython

\* proxyToPython(options), the service answering with status st and body b
ProxyToPython(method, st, b) ==
    /\ IF envUrl \/ pythonConfig
       THEN /\ response' = Consumed([status |-> st, body |-> b, bodyUsed |-> FALSE])
            /\ outcome' = Proxied([status |-> st, body |-> b, bodyUsed |-> FALSE], method)
       ELSE /\ response' = NoResponse
            /\ outcome' = [kind |-> "Error", status |-> 0, method |-> method]
    /\ UNCHANGED << envUrl, pythonConfig, clock, deadline, attempt, spos,
                    child, childRef, healthy >>
    /\ UNCHANGED exceptPython

\* proxyToPython(options), the service not answering: fetch rejects
ProxyFetchFails(method) ==
    /\ envUrl \/ pythonConfig
    /\ response' = NoResponse
    /\ outcome' = [kind |-> "TypeError", status |-> 0, method |-> method]
    /\ UNCHANGED << envUrl, pythonConfig, clock, deadline, attempt, spos,
                    child, childRef, healthy >>
    /\ UNCHANGED exceptPython

NextProxy ==
    \/ InitPythonProxy
    \/ \E method \in Methods, st \in Statuses, b \in Bodies : ProxyToPython(method, st, b)
    \/ \E method \in Methods : ProxyFetchFails(method)

InitProxying ==
    /\ InitCache /\ installed = TRUE
    /\ InitRewriter
    /\ InitHmr /\ hasPages
    /\ InitServe
    /\ InitRegistry
    /\ InitResolver
    /\ envUrl \in BOOLEAN
    /\ pythonConfig = FALSE
    /\ response = NoResponse
    /\ outcome = NoOutcome
    /\ InitService
    /\ InitPort

SpecProxy == InitProxying /\ [][NextProxy]_vars

\* C24: for every response of the Python service with a non-2xx status,
\* proxyToPython throws a SwiteProxyError carrying that status, whether or
\* not the body is valid JSON; it returns only for 2xx responses.
C24_NonOkThrowsProxyError ==
    response # NoResponse =>
        /\ ~Ok(response) =>
               (outcome.kind = "SwiteProxyError" /\ outcome.status = response.status)
        /\ outcome.kind = "returned" => Ok(response)

(***************************************************************************)
(* startPythonDevService(config, projectRoot), one step per await of       *)
(* pollHealth.  Times are in milliseconds.  SIGTERM ends the child.        *)
(***************************************************************************)
POLL_INTERVAL_MS == 500
HEALTH_TIMEOUT_MS == 15000
BACKOFF_THRESHOLD == 5
MaxDelayMs == 3000

\* AbortSignal.timeout(1000): a health request settles within a second.
FetchDurations == {0, 500, 1000}

\* attempt <= BACKOFF_THRESHOLD ? POLL_INTERVAL_MS
\*   : Math.min(POLL_INTERVAL_MS * Math.pow(2, attempt - BACKOFF_THRESHOLD), 3000)
Delay(n) ==
    IF n <= BACKOFF_THRESHOLD THEN POLL_INTERVAL_MS
    ELSE IF n - BACKOFF_THRESHOLD >= 3 THEN MaxDelayMs
    ELSE Min(POLL_INTERVAL_MS * 2 ^ (n - BACKOFF_THRESHOLD), MaxDelayMs)

\* The child that is left as it is.
LeftAlone(ref, ch) == ch

\* stopPythonDevService(): if (_child) { _child.kill("SIGTERM") }
Killed(ref, ch) == IF ref /\ ch = "running" THEN "killed" ELSE ch

\* spawn(...), _child.on("exit", ...), initPythonProxy(config), and the
\* first line of pollHealth
StartService ==
    /\ spos = "idle"
    /\ child' = "running"
    /\ childRef' = TRUE
    /\ pythonConfig' = TRUE
    /\ deadline' = clock + HEALTH_TIMEOUT_MS
    /\ attempt' = 0
    /\ spos' = "while"
    /\ UNCHANGED << envUrl, response, outcome, clock, healthy >>
    /\ UNCHANGED exceptPython

\* while (Date.now() < deadline); after the loop stopPythonDevService()
\* and the throw
PollCheck ==
    /\ spos = "while"
    /\ IF clock < deadline
       THEN /\ spos' = "fetch"
            /\ UNCHANGED << child, childRef >>
       ELSE /\ spos' = "rejected"
            /\ child' = Killed(childRef, child)
            /\ childRef' = FALSE
    /\ UNCHANGED << envUrl, pythonConfig, response, outcome, clock, deadline, attempt,
                    healthy >>
    /\ UNCHANGED exceptPython

\* await fetch(url, { signal: AbortSignal.timeout(1000) }), settled after d
\* milliseconds; `ok` is res.ok, FALSE also when fetch rejects
PollFetch(ok, d) ==
    /\ spos = "fetch"
    /\ clock' = clock + d
    /\ IF ok
       THEN /\ spos' = "resolved"
            /\ healthy' = TRUE
            /\ UNCHANGED attempt
       ELSE /\ spos' = "sleep"
            /\ attempt' = attempt + 1
            /\ UNCHANGED healthy
    /\ UNCHANGED << envUrl, pythonConfig, response, outcome, deadline, child, childRef >>
    /\ UNCHANGED exceptPython

\* await new Promise((resolve) => setTimeout(resolve, delay))
PollSleep ==
    /\ spos = "sleep"
    /\ clock' = clock + Delay(attempt)
    /\ spos' = "while"
    /\ UNCHANGED << envUrl, pythonConfig, response, outcome, deadline, attempt,
                    child, childRef, healthy >>
    /\ UNCHANGED exceptPython

\* The child exits by itself: the "exit" listener sets _child = null
ChildExits ==
    /\ child = "running"
    /\ child' = "exited"
    /\ childRef' = FALSE
    /\ UNCHANGED << envUrl, pythonConfig, response, outcome, clock, deadline, attempt,
                    spos, healthy >>
    /\ UNCHANGED exceptPython

\* The steps of startPythonDevService itself.
ServiceStep ==
    \/ StartService
    \/ PollCheck
    \/ \E ok \in BOOLEAN, d \in FetchDurations : PollFetch(ok, d)
    \/ PollSleep

NextService ==
    \/ ServiceStep
    \/ ChildExits

InitStarting ==
    /\ InitCache /\ installed = TRUE
    /\ InitRewriter
    /\ InitHmr /\ hasPages
    /\ InitServe
    /\ InitRegistry
    /\ InitResolver
    /\ InitPython
    /\ InitPort

\* Every await of the start settles: the health request within its
\* timeout, the timer after its delay.
SpecService == InitStarting /\ [][NextService]_vars /\ WF_vars(ServiceStep)

Ephemeral == {49152, 49153, 49154}
Ports == {DefaultPort} \cup Ephemeral

\* Another process starts listening on port p.
OtherBinds(p) ==
    /\ p \notin bound
    /\ p # listening
    /\ bound' = bound \cup {p}
    /\ UNCHANGED << hmrPort, listening, ipos, wasFree >>
    /\ UNCHANGED exceptPort

\* Another process stops listening on port p.
OtherReleases(p) ==
    /\ p \in bound
    /\ bound' = bound \ {p}
    /\ UNCHANGED << hmrPort, listening, ipos, wasFree >>
    /\ UNCHANGED exceptPort

\* await this.checkPortAvailable(this.port): a server is bound to the port
\* and closed again
CheckPortAvailable ==
    /\ ipos = "new"
    /\ wasFree' = (hmrPort \notin bound)
    /\ ipos' = IF hmrPort \notin bound THEN "create" ELSE "find"
    /\ UNCHANGED << hmrPort, bound, listening >>
    /\ UNCHANGED exceptPort

\* this.port = await this.findFreePort(): a server is bound to a port the
\* operating system chooses and closed again; the promise is rejected when
\* there is none
FindFreePort ==
    /\ ipos = "find"
    /\ IF Ephemeral \subseteq bound
       THEN /\ ipos' = "failed"
            /\ UNCHANGED hmrPort
       ELSE /\ \E p \in Ephemeral \ bound : hmrPort' = p
            /\ ipos' = "create"
    /\ UNCHANGED << bound, listening, wasFree >>
    /\ UNCHANGED exceptPort

\* this.wss = new WebSocketServer({ port: this.port }): listen(port) binds
\* the port, or fails with EADDRINUSE, which is emitted as an "error" event
\* later; initialize() runs to its end either way
CreateServer ==
    /\ ipos = "create"
    /\ listening' = IF hmrPort \in bound THEN NoPort ELSE hmrPort
    /\ ipos' = "done"
    /\ UNCHANGED << hmrPort, bound, wasFree >>
    /\ UNCHANGED exceptPort

NextPort ==
    \/ \E p \in Ports : OtherBinds(p)
    \/ \E p \in Ports : OtherReleases(p)
    \/ CheckPortAvailable
    \/ FindFreePort
    \/ CreateServer

InitEngine ==
    /\ InitCache /\ installed = TRUE
    /\ InitRewriter
    /\ InitHmr /\ hasPages
    /\ InitServe
    /\ InitRegistry
    /\ InitResolver
    /\ InitPython
    /\ InitPort

SpecPort == InitEngine /\ [][NextPort]_vars

\* C28: after initialize has completed, the push server is listening on the
\* port getPort() returns: the configured port if it was free, otherwise a
\* port the operating system assigned, whatever other processes bind
\* between the probe and the creation of the server.
C28_ListeningOnReportedPort ==
    ipos = "done" =>
        /\ listening = hmrPort
        /\ wasFree => hmrPort = DefaultPort
        /\ ~wasFree => hmrPort \in Ephemeral
====
